---- MODULE Spec2Model ----
(***************************************************************************)
(* PhyloWeaver tree editor: the Newick codec, the tree utilities, the      *)
(* topology editor and the edit session with its undo/redo history, as     *)
(* implemented in src/src/useVersionCheck.ts (the TreeEditor component).   *)
(*                                                                         *)
(* Text is a sequence of one-character strings.  A number is a tagged      *)
(* record; finite numbers are integers counted in units of 1e-9 (the       *)
(* smallest absolute quantity the code uses, the floor of splitEdge's      *)
(* eps).  A tree held in React state or in the history is a value (nested  *)
(* records); the object graph an event handler works on is a heap (a       *)
(* function from object keys to records whose children are keys), so that  *)
(* in-place mutation and shared objects behave as they do in JavaScript.   *)
(***************************************************************************)
EXTENDS Integers, Sequences, FiniteSets, TLC

\* ------------------------------------------------------------ numbers ---
\* 1.0 in model units (1 unit = 1e-9).
Unit == 10^9

\* a field that is absent (undefined; JSON drops it)
Undef == [t |-> "undef", v |-> 0]
\* JSON null (what JSON.stringify makes of NaN and of +-Infinity)
Null == [t |-> "null", v |-> 0]
NaN == [t |-> "nan", v |-> 0]
PosInf == [t |-> "inf", v |-> 1]
NegInf == [t |-> "inf", v |-> -1]
Num(n) == [t |-> "num", v |-> n]

\* Number.isFinite(x)
IsFinite(x) == x.t = "num"
\* typeof x === "number"
IsNumber(x) == x.t \in {"num", "inf", "nan"}

\* --------------------------------------------------------------- text ---
WS == {" ", "\t", "\n", "\r"}
Digits == {"0", "1", "2", "3", "4", "5", "6", "7", "8", "9"}
DigitVal(c) ==
  CASE c = "0" -> 0 [] c = "1" -> 1 [] c = "2" -> 2 [] c = "3" -> 3
    [] c = "4" -> 4 [] c = "5" -> 5 [] c = "6" -> 6 [] c = "7" -> 7
    [] c = "8" -> 8 [] c = "9" -> 9

\* newick[i] with i counted from 1; "" stands for undefined (past the end)
At(s, i) == IF i >= 1 /\ i <= Len(s) THEN s[i] ELSE ""
Slice(s, i, j) == IF i > j THEN <<>> ELSE SubSeq(s, i, j)

RECURSIVE eatWhitespace(_, _)
\* the index after the whitespace that starts at i
eatWhitespace(s, i) ==
  IF i <= Len(s) /\ s[i] \in WS THEN eatWhitespace(s, i + 1) ELSE i

RECURSIVE RunEnd(_, _, _)
\* the index after the longest run, from i, of characters not in stop
RunEnd(s, i, stop) ==
  IF i <= Len(s) /\ s[i] \notin stop THEN RunEnd(s, i + 1, stop) ELSE i

RECURSIVE DigitsEnd(_, _)
DigitsEnd(s, i) ==
  IF i <= Len(s) /\ s[i] \in Digits THEN DigitsEnd(s, i + 1) ELSE i

RECURSIVE TrimRight(_)
TrimRight(s) ==
  IF s # <<>> /\ s[Len(s)] \in WS THEN TrimRight(SubSeq(s, 1, Len(s) - 1)) ELSE s

\* String.prototype.trim
Trim(s) == TrimRight(Slice(s, eatWhitespace(s, 1), Len(s)))

RECURSIVE IntVal(_)
\* the value of a run of digits
IntVal(ds) ==
  IF ds = <<>> THEN 0
  ELSE 10 * IntVal(SubSeq(ds, 1, Len(ds) - 1)) + DigitVal(ds[Len(ds)])

RECURSIVE FracVal(_, _)
\* the value, in units of 10^-k, of the first k digits after the point
FracVal(ds, k) ==
  IF k = 0 \/ ds = <<>> THEN 0
  ELSE DigitVal(ds[1]) * 10^(k - 1) + FracVal(Tail(ds), k - 1)

InfinityText == <<"I", "n", "f", "i", "n", "i", "t", "y">>

\* parseFloat, in units of 10^-k: leading whitespace, a sign, then "Infinity"
\* or digits with an optional fraction; the longest such prefix counts and
\* the rest of the text is ignored; NaN when there is no such prefix.
\* (Exponents are not modelled: no input of the model carries one.)
parseFloat(s, k) ==
  LET i0 == eatWhitespace(s, 1)
      neg == At(s, i0) = "-"
      i1 == IF At(s, i0) \in {"-", "+"} THEN i0 + 1 ELSE i0
      i2 == DigitsEnd(s, i1)
      hasDot == At(s, i2) = "."
      i3 == IF hasDot THEN DigitsEnd(s, i2 + 1) ELSE i2
      nInt == i2 - i1
      nFrac == IF hasDot THEN i3 - (i2 + 1) ELSE 0
      mag == IntVal(Slice(s, i1, i2 - 1)) * 10^k + FracVal(Slice(s, i2 + 1, i3 - 1), k)
  IN  IF i1 + 7 <= Len(s) /\ SubSeq(s, i1, i1 + 7) = InfinityText
        THEN (IF neg THEN NegInf ELSE PosInf)
      ELSE IF nInt + nFrac = 0 THEN NaN
      ELSE Num(IF neg THEN 0 - mag ELSE mag)

\* -------------------------------------------------------------- trees ---
\* TreeNode.  id 0: no __id; name <<>>: no name or ""; children <<>>: no
\* children (the code never tells an absent list from an empty one, nor an
\* absent name from ""); edgeColor, color "": absent.
TreeNode(id, name, length, children) ==
  [id |-> id, name |-> name, length |-> length, children |-> children,
   collapsed |-> FALSE, edgeColor |-> "", edgeWidth |-> Undef, color |-> ""]

\* --------------------------------------------------------- parseNewick ---
RECURSIVE parseSubtree(_, _)
RECURSIVE parseChildren(_, _, _)

\* parseChildren as it would be if the end of the input closed the group
parseChildrenClosedByEnd(s, i, acc) ==
  LET sub == parseSubtree(s, i)
      j == eatWhitespace(s, sub.i)
  IN  IF ~sub.ok THEN [ok |-> FALSE, children |-> <<>>, i |-> sub.i]
      ELSE IF At(s, j) = "," THEN parseChildren(s, j + 1, Append(acc, sub.node))
      ELSE IF At(s, j) = ")" \/ j > Len(s)
        THEN [ok |-> TRUE, children |-> Append(acc, sub.node), i |-> j + 1]
      ELSE [ok |-> FALSE, children |-> <<>>, i |-> j]

\* the loop of parseSubtree after "(": [ok, children, i]
parseChildren(s, i, acc) ==
  LET sub == parseSubtree(s, i)
      j == eatWhitespace(s, sub.i)
  IN  IF ~sub.ok THEN [ok |-> FALSE, children |-> <<>>, i |-> sub.i]
      ELSE IF At(s, j) = "," THEN parseChildren(s, j + 1, Append(acc, sub.node))
      ELSE IF At(s, j) = ")" THEN [ok |-> TRUE, children |-> Append(acc, sub.node), i |-> j + 1]
      ELSE [ok |-> FALSE, children |-> <<>>, i |-> j]

\* [ok, node, i]: ok FALSE is the thrown "Newick parse error @ i"
parseSubtree(s, i0) ==
  LET i1 == eatWhitespace(s, i0)
      kids == IF At(s, i1) = "(" THEN parseChildren(s, i1 + 1, <<>>)
              ELSE [ok |-> TRUE, children |-> <<>>, i |-> i1]
      i2 == eatWhitespace(s, kids.i)
      i3 == RunEnd(s, i2, {":", ",", ")", ";"})
      name == Trim(Slice(s, i2, i3 - 1))
      hasLen == At(s, i3) = ":"
      i4 == IF hasLen THEN RunEnd(s, i3 + 1, {",", ")", ";"}) ELSE i3
      raw == parseFloat(Slice(s, i3 + 1, i4 - 1), 9)
      length == IF ~hasLen THEN Undef ELSE IF raw = NaN THEN Num(0) ELSE raw
  IN  IF ~kids.ok THEN [ok |-> FALSE, node |-> TreeNode(0, <<>>, Undef, <<>>), i |-> kids.i]
      ELSE [ok |-> TRUE, node |-> TreeNode(0, name, length, kids.children), i |-> i4]

\* [ok, tree]
parseNewick(newick) ==
  LET r == parseSubtree(newick, 1)
  IN  [ok |-> r.ok, tree |-> r.node]

\* ------------------------------------------------------------ toNewick ---
UnnamedText == <<"U", "n", "n", "a", "m", "e", "d">>

DigitChar(d) ==
  CASE d = 0 -> "0" [] d = 1 -> "1" [] d = 2 -> "2" [] d = 3 -> "3"
    [] d = 4 -> "4" [] d = 5 -> "5" [] d = 6 -> "6" [] d = 7 -> "7"
    [] d = 8 -> "8" [] d = 9 -> "9"

RECURSIVE IntText(_)
\* the decimal digits of n >= 0
IntText(n) ==
  IF n < 10 THEN <<DigitChar(n)>>
  ELSE Append(IntText(n \div 10), DigitChar(n % 10))

RECURSIVE FracText(_, _)
\* the k decimals of f (0 <= f < 10^k), trailing zeros left out
FracText(f, k) ==
  IF f = 0 THEN <<>>
  ELSE <<DigitChar(f \div 10^(k - 1))>> \o FracText(f % 10^(k - 1), k - 1)

\* `${+x.toFixed(6)}`: x rounded to 6 decimals, then written with the digits
\* it needs (x in units of 10^-9)
FixedText(x) ==
  IF x = NaN THEN <<"N", "a", "N">>
  ELSE IF x = PosInf THEN InfinityText
  ELSE IF x = NegInf THEN <<"-">> \o InfinityText
  ELSE LET mag == IF x.v < 0 THEN 0 - x.v ELSE x.v
           q == (mag + 500) \div 1000
           frac == FracText(q % 10^6, 6)
       IN  (IF x.v < 0 /\ q # 0 THEN <<"-">> ELSE <<>>)
             \o IntText(q \div 10^6)
             \o (IF frac = <<>> THEN <<>> ELSE <<".">> \o frac)

RECURSIVE Joined(_)
\* texts.join(",")
Joined(texts) ==
  IF texts = <<>> THEN <<>>
  ELSE IF Len(texts) = 1 THEN texts[1]
  ELSE texts[1] \o <<",">> \o Joined(Tail(texts))

RECURSIVE rec(_)
\* rec as it would be if the default name were given to every node
recNamingAll(n) ==
  LET name == [i \in 1..Len(n.name) |-> IF n.name[i] \in WS THEN "_" ELSE n.name[i]]
      len == IF IsNumber(n.length) THEN <<":">> \o FixedText(n.length) ELSE <<>>
  IN  IF n.children # <<>>
        THEN <<"(">> \o Joined([i \in 1..Len(n.children) |-> rec(n.children[i])])
               \o <<")">> \o (IF name = <<>> THEN UnnamedText ELSE name) \o len
        ELSE (IF name = <<>> THEN UnnamedText ELSE name) \o len

\* rec of toNewick, n being a tree
rec(n) ==
  LET name == [i \in 1..Len(n.name) |-> IF n.name[i] \in WS THEN "_" ELSE n.name[i]]
      len == IF IsNumber(n.length) THEN <<":">> \o FixedText(n.length) ELSE <<>>
  IN  IF n.children # <<>>
        THEN <<"(">> \o Joined([i \in 1..Len(n.children) |-> rec(n.children[i])])
               \o <<")">> \o name \o len
        ELSE (IF name = <<>> THEN UnnamedText ELSE name) \o len

toNewick(node) == rec(node) \o <<";">>

EXAMPLE ==
  <<"(", "(", "A", ":", "0", ".", "1", ",", "B", ":", "0", ".", "2", ")",
    "9", "5", "/", "0", ".", "9", "8", ":", "0", ".", "3", ",",
    "(", "C", ":", "0", ".", "3", ",", "D", ":", "0", ".", "4", ")",
    "8", "8", "/", "0", ".", "9", "2", ":", "0", ".", "5", ")", ";">>

\* --------------------------------------------------------------- heap ---
\* The object graph of one event handler: heap[k] is the object with key k,
\* its children a sequence of keys.  Two parents may hold the same key (one
\* object reached twice), which a value cannot express.
RECURSIVE LoadInto(_, _)
RECURSIVE LoadKids(_, _)

\* the objects of tree t appended to heap h: [heap, key], key the root's
LoadInto(h, t) ==
  LET k == Len(h) + 1
      r == LoadKids(Append(h, [t EXCEPT !.children = <<>>]), t.children)
  IN  [heap |-> [r.heap EXCEPT ![k].children = r.keys], key |-> k]

\* the objects of the trees kids appended to heap h: [heap, keys]
LoadKids(h, kids) ==
  IF kids = <<>> THEN [heap |-> h, keys |-> <<>>]
  ELSE LET done == LoadKids(h, SubSeq(kids, 1, Len(kids) - 1))
           r == LoadInto(done.heap, kids[Len(kids)])
       IN  [heap |-> r.heap, keys |-> Append(done.keys, r.key)]

\* the heap of a handler that starts with the state's tree: the root has key 1
Load(t) == LoadInto(<<>>, t).heap

\* JSON.stringify of a number: NaN and the infinities become null
Jsonify(x) == IF x.t \in {"inf", "nan"} THEN Null ELSE x

RECURSIVE clone(_, _)
RECURSIVE cloneKids(_, _)

\* clone = JSON.parse(JSON.stringify(o)) of the object with key k: a deep
\* copy that unfolds shared objects into separate copies
clone(h, k) ==
  [h[k] EXCEPT !.children = cloneKids(h, h[k].children),
               !.length = Jsonify(h[k].length),
               !.edgeWidth = Jsonify(h[k].edgeWidth)]

cloneKids(h, ks) ==
  IF ks = <<>> THEN <<>> ELSE <<clone(h, Head(ks))>> \o cloneKids(h, Tail(ks))

RECURSIVE Flatten(_)
Flatten(ss) == IF ss = <<>> THEN <<>> ELSE Head(ss) \o Flatten(Tail(ss))

\* the children lists of the objects ks, one after the other
KidsOf(h, ks) == Flatten([i \in 1..Len(ks) |-> h[ks[i]].children])

RECURSIVE BreadthFirst(_, _)
\* d3.hierarchy(root).each: the objects met, breadth first, level by level
BreadthFirst(h, frontier) ==
  IF frontier = <<>> THEN <<>>
  ELSE frontier \o BreadthFirst(h, KidsOf(h, frontier))

RECURSIVE PreOrder(_, _)
\* the objects met by a pre-order walk from k (collect in rerootAt)
PreOrder(h, k) ==
  <<k>> \o Flatten([i \in 1..Len(h[k].children) |-> PreOrder(h, h[k].children[i])])

\* the last element of sequence s that is one of wanted, 0 when none is
LastWhere(s, wanted) ==
  LET hits == {i \in 1..Len(s) : s[i] \in wanted}
  IN  IF hits = {} THEN 0
      ELSE s[CHOOSE i \in hits : \A j \in hits : j <= i]

\* the first index of s that holds x, 0 when none does (findIndex)
FirstIndex(s, x) ==
  LET hits == {i \in 1..Len(s) : s[i] = x}
  IN  IF hits = {} THEN 0
      ELSE CHOOSE i \in hits : \A j \in hits : i <= j

\* findById: every match overwrites found, so the last one met is returned;
\* 0 is null
findById(h, root, id) ==
  LastWhere(BreadthFirst(h, <<root>>), {k \in 1..Len(h) : h[k].id = id})

\* parentOf: the last object met that has a child carrying childId; 0 is null
parentOf(h, root, childId) ==
  LastWhere(BreadthFirst(h, <<root>>),
            {k \in 1..Len(h) :
               \E i \in 1..Len(h[k].children) : h[h[k].children[i]].id = childId})

\* containsTipId: some childless object below (or at) k carries tipId
containsTipId(h, k, tipId) ==
  LastWhere(BreadthFirst(h, <<k>>),
            {x \in 1..Len(h) : h[x].children = <<>> /\ h[x].id = tipId}) # 0

RECURSIVE ensureIds(_, _, _)
RECURSIVE ensureIdsKids(_, _, _)

\* ensureIds from object k with the counter __ID at next: [heap, next]
ensureIds(h, k, next) ==
  LET fresh == h[k].id = 0
      h1 == IF fresh THEN [h EXCEPT ![k].id = next] ELSE h
  IN  ensureIdsKids(h1, h[k].children, IF fresh THEN next + 1 ELSE next)

\* n.children?.forEach(ensureIds): [heap, next] after the objects ks
ensureIdsKids(h, ks, next) ==
  IF ks = <<>> THEN [heap |-> h, next |-> next]
  ELSE LET done == ensureIdsKids(h, SubSeq(ks, 1, Len(ks) - 1), next)
       IN  ensureIds(done.heap, ks[Len(ks)], done.next)


\* ------------------------------------------------------ reroot / edit ---
Max(a, b) == IF a >= b THEN a ELSE b
Min(a, b) == IF a <= b THEN a ELSE b

\* Number.isFinite(n.length) ? n.length : 0
LenOrZero(o) == IF IsFinite(o.length) THEN o.length.v ELSE 0

\* x > 0 for a number x
Positive(x) == (x.t = "num" /\ x.v > 0) \/ x = PosInf

RECURSIVE ParentPairs(_, _)
\* setParents in rerootAt: the <<parent, child>> pairs in the order they are
\* entered into parentMap (a later pair for the same child overwrites)
ParentPairs(h, k) ==
  Flatten([i \in 1..Len(h[k].children) |->
             << <<k, h[k].children[i]>> >> \o ParentPairs(h, h[k].children[i])])

RECURSIVE build(_, _, _, _, _)
RECURSIVE buildKids(_, _, _, _, _, _)

\* build in rerootAt: the rebuilt subtree of curr, entered from prev (0: null)
build(h, adj, par, curr, prev) ==
  TreeNode(0, h[curr].name, Undef, buildKids(h, adj, par, curr, prev, adj[curr]))

\* buildKids as it would be if every rebuilt child kept its own old length
buildKidsOwnLength(h, adj, par, curr, prev, nbs) ==
  IF nbs = <<>> THEN <<>>
  ELSE LET nb == Head(nbs)
           len == IF par[nb] # 0 THEN LenOrZero(h[nb]) ELSE 0
           ch == [build(h, adj, par, nb, curr) EXCEPT !.length = Num(len)]
       IN  (IF nb = prev THEN <<>> ELSE <<ch>>)
           \o buildKids(h, adj, par, curr, prev, Tail(nbs))

buildKids(h, adj, par, curr, prev, nbs) ==
  IF nbs = <<>> THEN <<>>
  ELSE LET nb == Head(nbs)
           wasChild == par[nb] = curr
           len == IF wasChild
                    THEN (IF par[nb] # 0 THEN LenOrZero(h[nb]) ELSE 0)
                    ELSE (IF par[curr] # 0 THEN LenOrZero(h[curr]) ELSE 0)
           ch == [build(h, adj, par, nb, curr) EXCEPT !.length = Num(len)]
       IN  (IF nb = prev THEN <<>> ELSE <<ch>>)
           \o buildKids(h, adj, par, curr, prev, Tail(nbs))

\* rerootAt as it would be if a node that is not found were taken to be the
\* root
rerootAtDefaultingToRoot(h, root, newRoot) ==
  LET nodes == PreOrder(h, root)
      pairs == ParentPairs(h, root)
      IsPairOf(k) == {i \in 1..Len(pairs) : pairs[i][2] = k}
      par == [k \in 1..Len(h) |->
                IF IsPairOf(k) = {} THEN 0
                ELSE pairs[CHOOSE i \in IsPairOf(k) : \A j \in IsPairOf(k) : j <= i][1]]
      events == Flatten([i \in 1..Len(nodes) |->
                  IF par[nodes[i]] = 0 THEN <<>>
                  ELSE << <<par[nodes[i]], nodes[i]>>, <<nodes[i], par[nodes[i]]>> >>])
      IsOf(k) == LET F(e) == e[1] = k IN SelectSeq(events, F)
      adj == [k \in 1..Len(h) |-> [i \in 1..Len(IsOf(k)) |-> IsOf(k)[i][2]]]
      found == \E i \in 1..Len(nodes) : nodes[i] = newRoot
  IN  LoadInto(h, build(h, adj, par, IF found THEN newRoot ELSE root, 0))

\* rerootAt(root, newRootData): [heap, key]; the rebuilt tree is made of new
\* objects that carry a name and a length only.  newRoot 0 is null.
rerootAt(h, root, newRoot) ==
  LET nodes == PreOrder(h, root)
      pairs == ParentPairs(h, root)
      IsPairOf(k) == {i \in 1..Len(pairs) : pairs[i][2] = k}
      par == [k \in 1..Len(h) |->
                IF IsPairOf(k) = {} THEN 0
                ELSE pairs[CHOOSE i \in IsPairOf(k) : \A j \in IsPairOf(k) : j <= i][1]]
      events == Flatten([i \in 1..Len(nodes) |->
                  IF par[nodes[i]] = 0 THEN <<>>
                  ELSE << <<par[nodes[i]], nodes[i]>>, <<nodes[i], par[nodes[i]]>> >>])
      IsOf(k) == LET F(e) == e[1] = k IN SelectSeq(events, F)
      adj == [k \in 1..Len(h) |-> [i \in 1..Len(IsOf(k)) |-> IsOf(k)[i][2]]]
      found == \E i \in 1..Len(nodes) : nodes[i] = newRoot
  IN  IF ~found THEN [heap |-> h, key |-> root]
      ELSE LoadInto(h, build(h, adj, par, newRoot, 0))

\* splitEdge as it would be if the child kept what the requested distance t,
\* rather than the clamped one, leaves of its length
splitEdgeByRequested(h, p, c, t) ==
  LET L == LenOrZero(h[c])
      eps == Max(1, L \div 10^6)
      tt == Min(Max(t, eps), Max(eps, L - eps))
      ni == Len(h) + 1
      idx == FirstIndex(h[p].children, c)
      h1 == Append(h, TreeNode(0, <<>>, Num(tt), <<c>>))
      h2 == IF idx > 0 THEN [h1 EXCEPT ![p].children[idx] = ni]
            ELSE [h1 EXCEPT ![p].children = Append(@, ni)]
  IN  [heap |-> [h2 EXCEPT ![c].length = Num(Max(0, L - t))], key |-> ni]

\* splitEdge(parentNode, childNode, t), t in units: [heap, key of newInternal]
splitEdge(h, p, c, t) ==
  LET L == LenOrZero(h[c])
      eps == Max(1, L \div 10^6)
      tt == Min(Max(t, eps), Max(eps, L - eps))
      ni == Len(h) + 1
      idx == FirstIndex(h[p].children, c)
      h1 == Append(h, TreeNode(0, <<>>, Num(tt), <<c>>))
      h2 == IF idx > 0 THEN [h1 EXCEPT ![p].children[idx] = ni]
            ELSE [h1 EXCEPT ![p].children = Append(@, ni)]
  IN  [heap |-> [h2 EXCEPT ![c].length = Num(Max(0, L - tt))], key |-> ni]

\* rerootOnEdge(treeRoot, parentId, childId, 0.5) with __ID at next:
\* [heap, key, next]
rerootOnEdge(h, root, parentId, childId, next) ==
  LET P == findById(h, root, parentId)
      C == findById(h, root, childId)
      sp == splitEdge(h, P, C, LenOrZero(h[C]) \div 2)
      rebuilt == rerootAt(sp.heap, root, sp.key)
      ids == ensureIds(rebuilt.heap, rebuilt.key, next)
  IN  IF P = 0 \/ C = 0 THEN [heap |-> h, key |-> root, next |-> next]
      ELSE [heap |-> ids.heap, key |-> rebuilt.key, next |-> ids.next]

RECURSIVE collapseUnaryInPlace(_, _)
RECURSIVE collapseUnaryKids(_, _)
RECURSIVE collapseUnaryLoop(_, _, _)

\* collapseUnaryLoop as it would be if the child spliced up kept its own
\* length
collapseUnaryLoopKeepingLength(h, k, i) ==
  IF i > Len(h[k].children) THEN h
  ELSE LET ch == h[k].children[i]
           gc == h[ch].children[1]
       IN  IF Len(h[ch].children) = 1
             THEN collapseUnaryLoop([h EXCEPT ![k].children[i] = gc], k, i)
             ELSE collapseUnaryLoop(h, k, i + 1)

\* the for loop of collapseUnaryInPlace, at index i (from 1) of k's children
collapseUnaryLoop(h, k, i) ==
  IF i > Len(h[k].children) THEN h
  ELSE LET ch == h[k].children[i]
           gc == h[ch].children[1]
           len == IF IsFinite(h[ch].length)
                    THEN Num(LenOrZero(h[gc]) + h[ch].length.v)
                    ELSE h[gc].length
           ec == IF h[ch].edgeColor # "" /\ h[gc].edgeColor = ""
                   THEN h[ch].edgeColor ELSE h[gc].edgeColor
           ew == IF IsNumber(h[ch].edgeWidth) /\ Positive(h[ch].edgeWidth)
                    /\ h[gc].edgeWidth = Undef
                   THEN h[ch].edgeWidth ELSE h[gc].edgeWidth
       IN  IF Len(h[ch].children) = 1
             THEN collapseUnaryLoop(
                    [h EXCEPT ![gc].length = len, ![gc].edgeColor = ec,
                              ![gc].edgeWidth = ew, ![k].children[i] = gc], k, i)
             ELSE collapseUnaryLoop(h, k, i + 1)

\* node.children.map(collapseUnaryInPlace): the heap after the objects ks
collapseUnaryKids(h, ks) ==
  IF ks = <<>> THEN h
  ELSE collapseUnaryInPlace(collapseUnaryKids(h, SubSeq(ks, 1, Len(ks) - 1)), ks[Len(ks)])

\* collapseUnaryInPlace(node): the heap after it
collapseUnaryInPlace(h, k) ==
  IF h[k].children = <<>> THEN h
  ELSE collapseUnaryLoop(collapseUnaryKids(h, h[k].children), k, 1)

RECURSIVE ladderizeTipBottom(_, _, _)
\* ladderizeTipBottom(root, tipId): the (stable) sort puts the children that
\* hold the tip last, then descends into the last child
ladderizeTipBottom(h, k, tipId) ==
  LET HasTip(x) == containsTipId(h, x, tipId)
      NoTip(x) == ~containsTipId(h, x, tipId)
      sorted == SelectSeq(h[k].children, NoTip) \o SelectSeq(h[k].children, HasTip)
      h1 == [h EXCEPT ![k].children = sorted]
      lastChild == sorted[Len(sorted)]
  IN  IF h[k].children = <<>> THEN h
      ELSE IF HasTip(lastChild) THEN ladderizeTipBottom(h1, lastChild, tipId)
      ELSE h1


\* ------------------------------------------------------- edit session ---
HISTORY_LIMIT == 50

\* the largest value of the counter __ID the model lets a handler reach
MaxId == 14
\* the longest history the model lets a recording commit produce
MaxHistory == 2
\* the largest tree (in nodes) the model lets an edit handler start from
MaxNodes == 4
\* the same three bounds where a part of the handlers is explored further
MaxEditHistory == 3
MaxEditNodes == 7
\* the number of commits in a row that the model follows past HISTORY_LIMIT
MaxOverflow == 2
\* the largest id in the behaviours that edit fields only: two Apply of the
\* smallest text, or one of any
MaxTextId == 11
\* the length of the texts handed to parseNewick
MaxLen == 4
\* the number of nodes of the trees handed to the module-level functions
MaxTreeNodes == 3

VARIABLES
  tree,          \* the state tree (TreeEditor's useState)
  historyStack,  \* the state historyStack, oldest entry first
  historyIndex,  \* the state historyIndex, counted from 0; -1 before the history effect
  historyInit,   \* historyInitRef.current
  shared,        \* the index (from 0) of the history entry that is the very object
                 \* held in tree, -1 when tree is an object of its own
  selection,     \* the state selection
  menu,          \* menu.visible
  ID,            \* the module-level counter __ID
  last,          \* the handler that ran last: [op, ok, cut, twice] (see Did)
  before,        \* the tree that was current when the latest recording commit's
                 \* handler started
  limit,         \* the bounds of this behaviour: [history, nodes, ids]
  probe          \* a call of one of the module-level functions outside the
                 \* editor: [fn, arg, out], out being [done |-> FALSE] until
                 \* the call has returned

vars == <<tree, historyStack, historyIndex, historyInit, shared, selection, menu,
          ID, last, before, limit, probe>>

\* no function is being called
NoProbe == [fn |-> "none", arg |-> <<>>, out |-> [done |-> FALSE]]

NoSelection == [type |-> "none", id |-> 0, parentId |-> 0, childId |-> 0]
NodeSelection(i) == [type |-> "node", id |-> i, parentId |-> 0, childId |-> 0]
LinkSelection(pi, ci) == [type |-> "link", id |-> 0, parentId |-> pi, childId |-> ci]

\* selection.type === 'node' ? selection.id : selection.childId
TargetId == IF selection.type = "node" THEN selection.id ELSE selection.childId

\* the record kept of the handler that ran last: ok tells whether it went
\* through or returned early; for a recording commit, cut is the number of
\* entries beyond the pointer that the commit discarded and twice tells
\* whether the handler handed a structure in which some object is reached
\* along two paths; arg is the text the handler was given (<<>>: none)
Did(op) == [op |-> op, ok |-> TRUE, cut |-> 0, twice |-> FALSE, arg |-> <<>>]
Refused(op) == [op |-> op, ok |-> FALSE, cut |-> 0, twice |-> FALSE, arg |-> <<>>]

\* the texts the user may have in the NEWICK box when pressing Apply
Texts ==
  { <<"(", "A", ")", "X", ";">>,
    <<"(", "A", ":", "-", "1", ",", "B", ":", "0", ".", "5", ")", ";">>,
    <<"(", "A", ":", "0", ".", "1", ",", "B", ":", "0", ".", "2">> }

\* the texts the user may enter as a branch length
LengthInputs == { <<"0", ".", "2", "5">>, <<"-", "1">>, <<"x">> }

\* the texts the user may enter as a branch width
WidthInputs == { <<"2">>, <<"0">>, <<"x">>, <<" ">> }

\* the texts the user may enter as a tip name
NameInputs == { <<" ", "Z", " ">>, <<"B", ",", "C">> }

\* the colours the user may pick
Colors == {"#ff4b00"}

LayoutModes == {"phylogram", "cladogram"}

\* the objects of the display tree: the walk does not go below a node that is
\* flagged collapsed and has children (cloneNode in displayTree)
RECURSIVE Shown(_, _)
Shown(h, k) ==
  IF h[k].collapsed /\ h[k].children # <<>> THEN <<k>>
  ELSE <<k>> \o Flatten([i \in 1..Len(h[k].children) |-> Shown(h, h[k].children[i])])

\* what the handler's commit leaves in historyStack before commitTree runs:
\* the entry that is the tree object itself has been mutated with it
Mutated(h) ==
  IF shared >= 0 THEN [historyStack EXCEPT ![shared + 1] = clone(h, 1)]
  ELSE historyStack

\* Limited as it would be if the entries beyond the pointer were kept
\* (prev.slice(0, historyIndex + 1) left out)
LimitedKeepingFuture(prev, snapshot) ==
  LET trimmed == Append(prev, snapshot)
  IN  IF Len(trimmed) > HISTORY_LIMIT
        THEN SubSeq(trimmed, Len(trimmed) - HISTORY_LIMIT + 1, Len(trimmed))
        ELSE trimmed

\* Limited as it would be if the cap were left out
LimitedWithoutCap(prev, snapshot) ==
  Append(IF historyIndex >= 0 THEN SubSeq(prev, 1, historyIndex + 1) ELSE <<>>, snapshot)

\* the updater passed to setHistoryStack in commitTree
Limited(prev, snapshot) ==
  LET trimmed == Append(IF historyIndex >= 0 THEN SubSeq(prev, 1, historyIndex + 1)
                        ELSE <<>>, snapshot)
  IN  IF Len(trimmed) > HISTORY_LIMIT
        THEN SubSeq(trimmed, Len(trimmed) - HISTORY_LIMIT + 1, Len(trimmed))
        ELSE trimmed

\* commitTree(nextTree) without skipHistory; prev is the history as the
\* handler left it.  The snapshot is both the new tree and the new entry.
commitTree(snapshot, prev) ==
  /\ tree' = snapshot
  /\ historyStack' = Limited(prev, snapshot)
  /\ historyIndex' = Len(Limited(prev, snapshot)) - 1
  /\ shared' = Len(Limited(prev, snapshot)) - 1
  /\ before' = tree

\* commitTreeSkipHistory as it would be if setTree(snapshot) were left out
commitTreeSkipHistoryWithoutSetTree(snapshot) ==
  /\ shared' = shared
  /\ UNCHANGED <<tree, historyStack, before>>

\* commitTreeSkipHistory as it would be if skipHistory were ignored when the
\* snapshot is recorded
commitTreeRecordingAnyway(snapshot) ==
  /\ tree' = snapshot
  /\ shared' = -1
  /\ historyStack' = Append(historyStack, snapshot)
  /\ UNCHANGED before

\* commitTree(nextTree, {skipHistory: true})
commitTreeSkipHistory(snapshot) ==
  /\ tree' = snapshot
  /\ shared' = -1
  /\ UNCHANGED <<historyStack, before>>

\* the model's bound on recording commits
MayCommit == historyIndex + 2 <= limit.history

\* the number of nodes of a tree
Size(t) == Len(PreOrder(Load(t), 1))

\* the model's bound on the trees that are edited
Editable == historyInit /\ Size(tree) <= limit.nodes

\* a handler that returns before it changes anything
Return(op) ==
  /\ last' = Refused(op)
  /\ UNCHANGED <<tree, historyStack, historyIndex, historyInit, shared, selection,
                 menu, ID, before, limit, probe>>

\* a handler that was given the text arg and returns before it changes anything
ReturnWith(op, arg) ==
  /\ last' = [Refused(op) EXCEPT !.arg = arg]
  /\ UNCHANGED <<tree, historyStack, historyIndex, historyInit, shared, selection,
                 menu, ID, before, limit, probe>>

InitTree == ensureIds(Load(parseNewick(EXAMPLE).tree), 1, 1)

\* the state after construction, the behaviour being bounded by lim, with the
\* call p about to be made
MountWith(lim, p) ==
  /\ tree = clone(InitTree.heap, 1)
  /\ ID = InitTree.next
  /\ historyStack = <<>>
  /\ historyIndex = -1
  /\ historyInit = FALSE
  /\ shared = -1
  /\ selection = NoSelection
  /\ menu = FALSE
  /\ last = Did("mount")
  /\ before = clone(InitTree.heap, 1)
  /\ limit = lim
  /\ probe = p

\* the state after construction, the behaviour being bounded by lim
Mount(lim) == MountWith(lim, NoProbe)

Init == Mount([history |-> MaxHistory, nodes |-> MaxNodes, ids |-> MaxId])

\* the effect that initialises the history after the first render
historyInitEffect ==
  /\ ~historyInit
  /\ historyInit' = TRUE
  /\ historyStack' = <<tree>>
  /\ historyIndex' = 0
  /\ last' = Did("historyInitEffect")
  /\ UNCHANGED <<tree, shared, selection, menu, ID, before, limit, probe>>

\* the ids a click on a drawn node can select (onClickNode ignores a node
\* without __id)
ShownIds(t) ==
  LET h == Load(t)
      shown == Shown(h, 1)
  IN  {h[shown[i]].id : i \in 1..Len(shown)} \ {0}

\* the <<parentId, childId>> pairs a click on a drawn link can select
ShownLinks(t) ==
  LET h == Load(t)
      shown == Shown(h, 1)
      Open(k) == ~(h[k].collapsed /\ h[k].children # <<>>)
  IN  UNION { { <<h[shown[i]].id, h[h[shown[i]].children[j]].id>> :
                  j \in 1..Len(h[shown[i]].children) } :
              i \in {x \in 1..Len(shown) : Open(shown[x])} }

onClickNode ==
  /\ historyInit
  /\ \E i \in ShownIds(tree) : selection' = NodeSelection(i)
  /\ menu' = TRUE
  /\ last' = Did("onClickNode")
  /\ UNCHANGED <<tree, historyStack, historyIndex, historyInit, shared, ID, before, limit, probe>>

onClickLink ==
  /\ historyInit
  /\ \E l \in ShownLinks(tree) :
       /\ l[1] # 0 /\ l[2] # 0
       /\ selection' = LinkSelection(l[1], l[2])
  /\ menu' = TRUE
  /\ last' = Did("onClickLink")
  /\ UNCHANGED <<tree, historyStack, historyIndex, historyInit, shared, ID, before, limit, probe>>

\* a click on the blank canvas
clearSelectionState ==
  /\ historyInit
  /\ selection' = NoSelection
  /\ menu' = FALSE
  /\ last' = Did("clearSelectionState")
  /\ UNCHANGED <<tree, historyStack, historyIndex, historyInit, shared, ID, before, limit, probe>>

\* parseNewick of every text of the model
\* texts of trees that hold a node with one child next to a node with two
NestedTexts ==
  { <<"(", "(", "C", ":", "0", ".", "3", ",", "D", ":", "0", ".", "4", ")", "P", ":",
      "0", ".", "5", ",", "(", "E", ":", "0", ".", "1", ")", "Q", ":", "0", ".", "2", ")", ";">>,
    <<"(", "(", "C", ",", "D", ")", "P", ",", "E", ")", ";">> }

Parsed == [text \in Texts \cup NestedTexts \cup {EXAMPLE} |-> parseNewick(text)]

\* Apply as it would be if the catch block let the handler go on to commit
\* the node built so far
ApplyCommittingFailure(op, text) ==
  LET ids == ensureIds(Load(Parsed[text].tree), 1, ID)
  IN  /\ historyInit
      /\ MayCommit /\ ids.next <= limit.ids + 1
      /\ commitTree(clone(ids.heap, 1), historyStack)
      /\ ID' = ids.next
      /\ last' = IF Parsed[text].ok
                   THEN [Did(op) EXCEPT !.cut = Len(historyStack) - (historyIndex + 1)]
                   ELSE Refused(op)
      /\ menu' = FALSE
      /\ UNCHANGED <<historyInit, selection, limit, probe>>

\* commitTree(ensureIds(parseNewick(text))) inside try/catch; the click then
\* reaches the page's onClick, which hides the context menu
Apply(op, text) ==
  LET ids == ensureIds(Load(Parsed[text].tree), 1, ID)
  IN  /\ historyInit
      /\ IF Parsed[text].ok
           THEN /\ MayCommit /\ ids.next <= limit.ids + 1
                /\ commitTree(clone(ids.heap, 1), historyStack)
                /\ ID' = ids.next
                /\ last' = [Did(op) EXCEPT !.cut = Len(historyStack) - (historyIndex + 1)]
           ELSE /\ last' = Refused(op)
                /\ UNCHANGED <<tree, historyStack, historyIndex, shared, ID, before>>
      /\ menu' = FALSE
      /\ UNCHANGED <<historyInit, selection, limit, probe>>

\* applyText with rawText = text
applyText == \E text \in Texts : Apply("applyText", text)

loadExample == Apply("loadExample", EXAMPLE)

handleUndo ==
  /\ historyInit
  /\ IF historyIndex <= 0 THEN Return("handleUndo")
     ELSE /\ historyIndex' = historyIndex - 1
          /\ commitTreeSkipHistory(historyStack[historyIndex])
          /\ last' = Did("handleUndo")
          /\ UNCHANGED <<historyInit, selection, menu, ID, limit, probe>>

handleRedo ==
  /\ historyInit
  /\ IF historyIndex < 0 \/ historyIndex >= Len(historyStack) - 1 THEN Return("handleRedo")
     ELSE /\ historyIndex' = historyIndex + 1
          /\ commitTreeSkipHistory(historyStack[historyIndex + 2])
          /\ last' = Did("handleRedo")
          /\ UNCHANGED <<historyInit, selection, menu, ID, limit, probe>>

\* --------------------------------------------------- editing actions ---
\* Every handler below mutates the objects of the state's tree in place
\* (heap key 1 is its root) and then commits a clone.

NewText == <<"N", "e", "w">>

RECURSIVE Insert(_, _)
\* x put into the ascending sequence s
Insert(s, x) ==
  IF s = <<>> THEN <<x>>
  ELSE IF x < Head(s) THEN <<x>> \o s
  ELSE <<Head(s)>> \o Insert(Tail(s), x)

RECURSIVE Sorted(_)
\* lens.sort((a,b)=>a-b)
Sorted(s) == IF s = <<>> THEN <<>> ELSE Insert(Sorted(Tail(s)), Head(s))

Reverse(s) == [i \in 1..Len(s) |-> s[Len(s) + 1 - i]]

\* some object is reached along two paths from key root of heap h
Twice(h, root) ==
  LET order == PreOrder(h, root)
  IN  \E i, j \in 1..Len(order) : i < j /\ order[i] = order[j]

\* the end of an edit handler that was given the text arg and commits the
\* tree rooted at key root of heap h
CommitWith(op, arg, h, root, next) ==
  /\ MayCommit
  /\ next <= limit.ids + 1
  /\ commitTree(clone(h, root), Mutated(h))
  /\ ID' = next
  /\ last' = [Did(op) EXCEPT !.cut = Len(historyStack) - (historyIndex + 1),
                             !.twice = Twice(h, root),
                             !.arg = arg]
  /\ UNCHANGED <<historyInit, limit, probe>>

\* the end of an edit handler that commits the tree rooted at key root of heap h
Commit(op, h, root, next) == CommitWith(op, <<>>, h, root, next)

\* Collapse is a button of the context menu, disabled unless
\* canCollapseSelection; the handler's own checks are weaker
actionCollapseSelected ==
  /\ Editable /\ menu /\ selection.type # "none"
  /\ LET h == Load(tree)
         target == findById(h, 1, TargetId)
     IN  /\ target # 0
         /\ h[target].children # <<>> /\ ~h[target].collapsed
         /\ Commit("actionCollapseSelected", [h EXCEPT ![target].collapsed = TRUE], 1, ID)
  /\ menu' = FALSE
  /\ UNCHANGED selection

\* Expand is a button of the context menu, disabled unless canExpandSelection
actionExpandSelected ==
  /\ Editable /\ menu /\ selection.type # "none"
  /\ LET h == Load(tree)
         target == findById(h, 1, TargetId)
     IN  /\ target # 0
         /\ h[target].collapsed
         /\ Commit("actionExpandSelected", [h EXCEPT ![target].collapsed = FALSE], 1, ID)
  /\ menu' = FALSE
  /\ UNCHANGED selection

actionDeleteSelected ==
  /\ Editable
  /\ LET h == Load(tree)
         isNode == selection.type = "node"
         p == IF isNode THEN parentOf(h, 1, selection.id)
              ELSE findById(h, 1, selection.parentId)
         gone == IF isNode THEN selection.id ELSE selection.childId
         Keep(c) == h[c].id # gone
         h1 == [h EXCEPT ![p].children = SelectSeq(@, Keep)]
     IN  IF selection.type = "none" THEN Return("actionDeleteSelected")
         ELSE IF p = 0 \/ h[p].children = <<>> THEN Return("actionDeleteSelected")
         ELSE /\ Commit("actionDeleteSelected", collapseUnaryInPlace(h1, 1), 1, ID)
              /\ selection' = NoSelection
              /\ menu' = FALSE

\* actionAddLeaf on a link selection
AddLeafOnLink(h) ==
  LET p == findById(h, 1, selection.parentId)
      c == findById(h, 1, selection.childId)
      currentLength == IF IsNumber(h[c].length) /\ IsFinite(h[c].length)
                         THEN h[c].length.v ELSE Unit \div 10
      sp == splitEdge(h, p, c, Max(Unit \div 10^6, currentLength \div 2))
      leaf == Len(sp.heap) + 1
      h1 == Append(sp.heap,
                   TreeNode(ID, NewText, Num(Max(Unit \div 10^3, currentLength \div 2)), <<>>))
      h2 == [h1 EXCEPT ![sp.key].children = Append(@, leaf)]
      ids == ensureIds(h2, 1, ID + 1)
  IN  IF p = 0 \/ c = 0 THEN Return("actionAddLeaf")
      ELSE /\ Commit("actionAddLeaf", ids.heap, 1, ids.next)
           /\ menu' = FALSE
           /\ UNCHANGED selection

\* actionAddLeaf on a node selection, the layout mode being mode
AddLeafOnNode(h, mode) ==
  LET t == findById(h, 1, selection.id)
      kids == h[t].children
      lens == Sorted([i \in 1..Len(kids) |-> LenOrZero(h[kids[i]])])
      med == lens[(Len(lens) \div 2) + 1]
      leafLength == IF mode # "phylogram" THEN Undef
                    ELSE IF Len(kids) <= 1 THEN Num(Unit \div 10)
                    ELSE Num(Max(Unit \div 10^3, IF med = 0 THEN Unit \div 10 ELSE med))
      leaf == Len(h) + 1
      I == Len(h) + 2
      h1 == Append(h, TreeNode(ID, NewText, leafLength, <<>>))
      h2 == IF Len(kids) <= 1 THEN [h1 EXCEPT ![t].children = Append(@, leaf)]
            ELSE [Append(h1, TreeNode(ID + 1, <<>>, Undef, kids))
                    EXCEPT ![t].children = <<I, leaf>>]
      ids == ensureIds(h2, 1, IF Len(kids) <= 1 THEN ID + 1 ELSE ID + 2)
  IN  IF t = 0 THEN Return("actionAddLeaf")
      ELSE /\ Commit("actionAddLeaf", ids.heap, 1, ids.next)
           /\ menu' = FALSE
           /\ UNCHANGED selection

\* the layout mode is a state of its own that the user toggles at will and
\* that nothing else of this model reads: it comes in as an input
actionAddLeaf ==
  /\ Editable
  /\ IF selection.type = "none" THEN Return("actionAddLeaf")
     ELSE IF selection.type = "link" THEN AddLeafOnLink(Load(tree))
     ELSE \E mode \in LayoutModes : AddLeafOnNode(Load(tree), mode)

actionFlipNode ==
  /\ Editable
  /\ LET h == Load(tree)
         t == findById(h, 1, TargetId)
     IN  IF selection.type = "none" THEN Return("actionFlipNode")
         ELSE IF t = 0 \/ h[t].children = <<>> THEN Return("actionFlipNode")
         ELSE /\ Commit("actionFlipNode", [h EXCEPT ![t].children = Reverse(@)], 1, ID)
              /\ menu' = FALSE
              /\ UNCHANGED selection

\* the end of actionReroot, up to the commit: r with its ids given (ids is
\* ensureIds' result, root the key of r), tip the object that may be ladderized
\* to the bottom (0: none): [found, heap, key, next]
Ladderized(ids, root, tip) ==
  [found |-> TRUE,
   heap |-> IF tip # 0 /\ ids.heap[tip].children = <<>> /\ ids.heap[tip].id # 0
              THEN ladderizeTipBottom(ids.heap, root, ids.heap[tip].id)
              ELSE ids.heap,
   key |-> root, next |-> ids.next]

\* const r=collapseUnaryInPlace(r0); ensureIds(r), __ID being at next
Unaried(r0, next) == ensureIds(collapseUnaryInPlace(r0.heap, r0.key), r0.key, next)

\* actionReroot on a node selection, obj being findById(tree, selection.id)
\* and r0 rerootAt(tree, obj)
RerootOnNode(h, obj, r0) ==
  IF obj = 0 THEN [found |-> FALSE, heap |-> h, key |-> 1, next |-> ID]
  ELSE Ladderized(Unaried(r0, ID), r0.key, obj)

\* actionReroot on a link selection, r0 being rerootOnEdge's result and ids
\* the tree with its ids given
RerootOnLink(r0, ids) ==
  Ladderized(ids, r0.key, findById(ids.heap, r0.key, selection.childId))

actionReroot ==
  /\ Editable
  /\ LET h == Load(tree)
         r0 == rerootOnEdge(h, 1, selection.parentId, selection.childId, ID)
         obj == findById(h, 1, selection.id)
         r == IF selection.type = "node"
                THEN RerootOnNode(h, obj, rerootAt(h, 1, obj))
                ELSE RerootOnLink(r0, Unaried(r0, r0.next))
     IN  IF selection.type = "none" THEN Return("actionReroot")
         ELSE IF ~r.found THEN Return("actionReroot")
         ELSE /\ Commit("actionReroot", r.heap, r.key, r.next)
              /\ selection' = NoSelection
              /\ menu' = FALSE

actionRenameTip ==
  /\ Editable
  /\ \E nm \in NameInputs :
       LET h == Load(tree)
           t == findById(h, 1, TargetId)
           nextName == Trim(nm)
           h1 == [h EXCEPT ![t].name = IF nextName = <<>> THEN UnnamedText ELSE nextName]
       IN  IF selection.type = "none" THEN ReturnWith("actionRenameTip", nm)
           ELSE IF t = 0 \/ h[t].children # <<>> THEN ReturnWith("actionRenameTip", nm)
           ELSE /\ CommitWith("actionRenameTip", nm, h1, 1, ID)
                /\ menu' = FALSE
                /\ UNCHANGED selection

\* the validation of actionEditLength as it would be without v<0
InvalidLengthNaNOnly(v) == v = NaN

\* Number.isNaN(v)||v<0
InvalidLength(v) == v = NaN \/ v = NegInf \/ (v.t = "num" /\ v.v < 0)

\* actionEditLength(vs) from the input box (Enter)
actionEditLength ==
  /\ Editable
  /\ \E vs \in LengthInputs :
       LET v == parseFloat(vs, 9)
           h == Load(tree)
           t == findById(h, 1, TargetId)
       IN  IF InvalidLength(v) THEN ReturnWith("actionEditLength", vs)
           ELSE IF selection.type = "none" THEN ReturnWith("actionEditLength", vs)
           ELSE IF t = 0 THEN ReturnWith("actionEditLength", vs)
           ELSE /\ CommitWith("actionEditLength", vs, [h EXCEPT ![t].length = v], 1, ID)
                /\ menu' = FALSE
                /\ UNCHANGED selection

\* Number.isNaN(v) || v<=0
InvalidWidth(v) == v = NaN \/ v = NegInf \/ (v.t = "num" /\ v.v <= 0)

\* Math.max(0.25, Math.min(12, v)) for a finite v.  Math.min(12, v) is v:
\* a number of the model is a 32-bit count of units, hence below 2.15, and
\* no width input of the model is Infinity
Clamped(v) == Num(Max(Unit \div 4, v.v))

\* actionEditBranchWidth(vs) from the input box (Enter)
actionEditBranchWidth ==
  /\ Editable
  /\ \E vs \in WidthInputs :
       LET h == Load(tree)
           t == findById(h, 1, TargetId)
           trimmed == Trim(vs)
           v == parseFloat(trimmed, 9)
       IN  IF selection.type = "none" THEN ReturnWith("actionEditBranchWidth", vs)
           ELSE IF t = 0 THEN ReturnWith("actionEditBranchWidth", vs)
           ELSE IF trimmed = <<>>
             THEN /\ CommitWith("actionEditBranchWidth", vs,
                                [h EXCEPT ![t].edgeWidth = Undef], 1, ID)
                  /\ menu' = FALSE
                  /\ UNCHANGED selection
           ELSE IF InvalidWidth(v) THEN ReturnWith("actionEditBranchWidth", vs)
           ELSE /\ CommitWith("actionEditBranchWidth", vs,
                              [h EXCEPT ![t].edgeWidth = Clamped(v)], 1, ID)
                /\ menu' = FALSE
                /\ UNCHANGED selection

\* actionColorSelected(c), from the context menu (which stays open) or from
\* the side panel (the click then hides the menu)
actionColorSelected ==
  /\ Editable
  /\ \E c \in Colors :
       LET h == Load(tree)
           t == findById(h, 1, TargetId)
           h1 == IF selection.type = "link" THEN [h EXCEPT ![t].edgeColor = c]
                 ELSE [h EXCEPT ![t].color = c]
       IN  IF selection.type = "none" THEN Return("actionColorSelected")
           ELSE IF t = 0 THEN Return("actionColorSelected")
           ELSE /\ Commit("actionColorSelected", h1, 1, ID)
                /\ menu' \in {menu, FALSE}
                /\ UNCHANGED selection

Next ==
  \/ historyInitEffect
  \/ onClickNode
  \/ onClickLink
  \/ clearSelectionState
  \/ applyText
  \/ loadExample
  \/ handleUndo
  \/ handleRedo
  \/ actionCollapseSelected
  \/ actionExpandSelected
  \/ actionDeleteSelected
  \/ actionAddLeaf
  \/ actionFlipNode
  \/ actionReroot
  \/ actionRenameTip
  \/ actionEditLength
  \/ actionEditBranchWidth
  \/ actionColorSelected

Spec == Init /\ [][Next]_vars

\* ------------------------------------------- the handlers explored further ---
\* Apply, undo, redo and two edits that change a field or the children's
\* order in place, with room for one more history entry
NextHistory ==
  \/ historyInitEffect
  \/ onClickNode
  \/ applyText
  \/ handleUndo
  \/ handleRedo
  \/ actionEditLength
  \/ actionFlipNode

SpecHistory ==
  /\ Mount([history |-> MaxEditHistory, nodes |-> MaxNodes, ids |-> MaxTextId])
  /\ [][NextHistory]_vars

\* the edits of the topology on a selected branch
NextTopology ==
  \/ historyInitEffect
  \/ onClickLink
  \/ applyText
  \/ handleUndo
  \/ handleRedo
  \/ actionAddLeaf
  \/ actionDeleteSelected
  \/ actionReroot

SpecTopology ==
  /\ Mount([history |-> MaxEditHistory, nodes |-> MaxNodes, ids |-> MaxId])
  /\ [][NextTopology]_vars

\* collapse, expand and delete on the tree the editor starts with
NextCollapse ==
  \/ historyInitEffect
  \/ onClickNode
  \/ handleUndo
  \/ handleRedo
  \/ actionCollapseSelected
  \/ actionExpandSelected
  \/ actionDeleteSelected

SpecCollapse ==
  /\ Mount([history |-> MaxEditHistory, nodes |-> MaxEditNodes, ids |-> MaxId])
  /\ [][NextCollapse]_vars

\* applyText with one of the nested texts in the NEWICK box
applyNested == \E text \in NestedTexts : Apply("applyText", text)

\* deletions on the tree the editor starts with and on the nested trees
NextDelete ==
  \/ historyInitEffect
  \/ onClickNode
  \/ applyNested
  \/ handleUndo
  \/ actionDeleteSelected

SpecDelete ==
  /\ Mount([history |-> MaxEditHistory, nodes |-> MaxEditNodes, ids |-> MaxId])
  /\ [][NextDelete]_vars

\* Load example pressed while the pointer is on the newest entry: commits in
\* a row
loadExampleAtTip ==
  /\ historyIndex = Len(historyStack) - 1
  /\ loadExample

\* commits in a row until the history is full and MaxOverflow more, then undo
\* and redo
NextOverflow ==
  \/ historyInitEffect
  \/ loadExampleAtTip
  \/ handleUndo
  \/ handleRedo

SpecOverflow ==
  /\ Mount([history |-> HISTORY_LIMIT + MaxOverflow, nodes |-> MaxNodes,
            ids |-> 7 * (HISTORY_LIMIT + MaxOverflow + 1)])
  /\ [][NextOverflow]_vars

\* the edits that validate what the user entered or selected
NextValidation ==
  \/ historyInitEffect
  \/ onClickNode
  \/ applyText
  \/ handleUndo
  \/ actionDeleteSelected
  \/ actionRenameTip
  \/ actionEditLength
  \/ actionEditBranchWidth

SpecValidation ==
  /\ Mount([history |-> MaxEditHistory, nodes |-> MaxNodes, ids |-> MaxTextId])
  /\ [][NextValidation]_vars

\* ------------------------------------------ the module-level functions ---
\* the editor as it is after construction, nothing of it being used
Idle == [history |-> 0, nodes |-> 0, ids |-> 0]

\* the editor stays as it is
IdleEditor ==
  UNCHANGED <<tree, historyStack, historyIndex, historyInit, shared, selection,
              menu, ID, last, before, limit>>

\* the call fn(arg) about to be made
Call(fn, arg) == [fn |-> fn, arg |-> arg, out |-> [done |-> FALSE]]

\* the characters of the texts handed to parseNewick (one digit, 0: a run
\* of any other digit would leave the 32-bit range of the model's numbers)
Alphabet == {"(", ")", ",", ";", ":", "A", "0", " "}

\* the text of the malformed-input scenario
UnclosedText == <<"(", "A", ":", "0", ".", "1", ",", "B", ":", "0", ".", "2">>

\* the texts handed to parseNewick: every text of at most MaxLen characters
\* of Alphabet, and the scenario's
ParseInputs ==
  UNION {[1..n -> Alphabet] : n \in 0..MaxLen} \cup {UnclosedText}

RECURSIVE TreesOf(_, _)
RECURSIVE ForestsOf(_, _)
\* the trees of exactly n nodes, each node with the fields of one of labels
\* and no id
TreesOf(n, labels) ==
  {[l EXCEPT !.children = f] : l \in labels, f \in ForestsOf(n - 1, labels)}

\* the sequences of trees that have m nodes together
ForestsOf(m, labels) ==
  IF m = 0 THEN {<<>>}
  ELSE UNION {{<<t>> \o f : t \in TreesOf(k, labels), f \in ForestsOf(m - k, labels)} :
              k \in 1..m}

\* the trees of at most MaxTreeNodes nodes
TreesUpTo(labels) == UNION {TreesOf(n, labels) : n \in 1..MaxTreeNodes}

\* nodes named or not, with a length or not
NamedLabels ==
  {TreeNode(0, name, length, <<>>) :
     name \in {<<>>, <<"A">>}, length \in {Undef, Num(Unit \div 4)}}

RECURSIVE collectTips(_, _)
\* collectTips(node): the childless objects below (or at) key k of heap h, in
\* order
collectTips(h, k) ==
  IF h[k].children = <<>> THEN <<k>>
  ELSE Flatten([i \in 1..Len(h[k].children) |-> collectTips(h, h[k].children[i])])

\* map.set(id, v)
MapSet(map, id, v) == [x \in DOMAIN map \cup {id} |-> IF x = id THEN v ELSE map[x]]

RECURSIVE mapTipCounts(_, _, _)
RECURSIVE mapTipCountsKids(_, _, _)

\* mapTipCounts as it would be if a leaf did not count itself
mapTipCountsLeafless(h, k, map) ==
  LET r == mapTipCountsKids(h, h[k].children, map)
  IN  IF h[k].children = <<>>
        THEN [map |-> IF h[k].id # 0 THEN MapSet(map, h[k].id, 0) ELSE map, sum |-> 0]
        ELSE [map |-> IF h[k].id # 0 THEN MapSet(r.map, h[k].id, r.sum) ELSE r.map,
              sum |-> r.sum]

\* mapTipCounts(node, map), node being the object with key k: [map, sum]
mapTipCounts(h, k, map) ==
  LET r == mapTipCountsKids(h, h[k].children, map)
  IN  IF h[k].children = <<>>
        THEN [map |-> IF h[k].id # 0 THEN MapSet(map, h[k].id, 1) ELSE map, sum |-> 1]
        ELSE [map |-> IF h[k].id # 0 THEN MapSet(r.map, h[k].id, r.sum) ELSE r.map,
              sum |-> r.sum]

\* node.children.reduce((acc, child) => acc + mapTipCounts(child, map), 0)
mapTipCountsKids(h, ks, map) ==
  IF ks = <<>> THEN [map |-> map, sum |-> 0]
  ELSE LET done == mapTipCountsKids(h, SubSeq(ks, 1, Len(ks) - 1), map)
           r == mapTipCounts(h, ks[Len(ks)], done.map)
       IN  [map |-> r.map, sum |-> done.sum + r.sum]

\* the empty Map
EmptyMap == [x \in {} |-> 0]

\* t with its ids given by ensureIds, __ID being at 1
WithIds(t) == clone(ensureIds(Load(t), 1, 1).heap, 1)

\* tipCount and tipCountsById of the tree probe.arg
callTipCounts ==
  /\ probe.fn = "tipCounts" /\ ~probe.out.done
  /\ probe' = [probe EXCEPT
                 !.out = [done |-> TRUE,
                          map |-> mapTipCounts(Load(probe.arg), 1, EmptyMap).map,
                          tipCount |-> Len(collectTips(Load(probe.arg), 1))]]
  /\ IdleEditor

NextTipCounts == callTipCounts

SpecTipCounts ==
  /\ \E t \in TreesUpTo(NamedLabels) : MountWith(Idle, Call("tipCounts", WithIds(t)))
  /\ [][NextTipCounts]_vars

\* a node of the display tree: the fields of n, the children kids, and
\* __collapsedTipCount (0: undefined) and __isCollapsedPlaceholder
DisplayNode(n, kids, count, placeholder) ==
  [id |-> n.id, name |-> n.name, length |-> n.length, children |-> kids,
   collapsed |-> n.collapsed, edgeColor |-> n.edgeColor, edgeWidth |-> n.edgeWidth,
   color |-> n.color, collapsedTipCount |-> count, isCollapsedPlaceholder |-> placeholder]

RECURSIVE cloneNode(_, _)

\* cloneNode as it would be if a placeholder kept the children of its node
cloneNodeKeepingChildren(n, map) ==
  IF n.collapsed /\ n.children # <<>>
    THEN DisplayNode(n, [i \in 1..Len(n.children) |-> cloneNode(n.children[i], map)],
                     IF n.id # 0 /\ n.id \in DOMAIN map THEN map[n.id] ELSE 0, TRUE)
    ELSE DisplayNode(n, [i \in 1..Len(n.children) |-> cloneNode(n.children[i], map)],
                     0, FALSE)

\* cloneNode of displayTree, map being tipCountsById
cloneNode(n, map) ==
  IF n.collapsed /\ n.children # <<>>
    THEN DisplayNode(n, <<>>, IF n.id # 0 /\ n.id \in DOMAIN map THEN map[n.id] ELSE 0, TRUE)
    ELSE DisplayNode(n, [i \in 1..Len(n.children) |-> cloneNode(n.children[i], map)],
                     0, FALSE)

\* tipCountsById of the tree t
tipCountsById(t) == mapTipCounts(Load(t), 1, EmptyMap).map

\* displayTree, derived from the tree t
displayTree(t) == cloneNode(t, tipCountsById(t))

\* ------------------------------------------------------------- layout ---
\* The y values are held in 48ths of a pixel, so that the means of the trees
\* within the bounds are whole numbers.
YOne == 2^4 * 3

\* useState(50): the gap between two leaves
yGap == 50 * YOne

\* useState(() => 1200): the pixel width of the x scale
xScaleWidth == 1200 * YOne

RECURSIVE SumOf(_)
SumOf(vs) == IF vs = <<>> THEN 0 ELSE Head(vs) + SumOf(Tail(vs))

\* d3.mean(values)
mean(vs) == SumOf(vs) \div Len(vs)

RECURSIVE post(_, _, _)
RECURSIVE postKids(_, _, _)

\* post as it would be if an internal node were put midway between the first
\* and the last of its leaves
postMidway(d, idx, depth) ==
  LET kids == postKids(d.children, idx, depth + 1)
      node == [data |-> [d EXCEPT !.children = <<>>], depth |-> depth]
  IN  IF d.children = <<>>
        THEN [node |-> node @@ [y |-> idx * yGap, children |-> <<>>], idx |-> idx + 1]
        ELSE [node |-> node @@ [y |-> (idx * yGap + (kids.idx - 1) * yGap) \div 2,
                                 children |-> kids.nodes],
              idx |-> kids.idx]

\* post of the layout, on the node d of d3.hierarchy(displayTree) at depth
\* depth, idx leaves being placed already: [node, idx], the node with its y
post(d, idx, depth) ==
  LET kids == postKids(d.children, idx, depth + 1)
      node == [data |-> [d EXCEPT !.children = <<>>], depth |-> depth]
  IN  IF d.children = <<>>
        THEN [node |-> node @@ [y |-> idx * yGap, children |-> <<>>], idx |-> idx + 1]
        ELSE [node |-> node @@ [y |-> mean([i \in 1..Len(kids.nodes) |-> kids.nodes[i].y]),
                                 children |-> kids.nodes],
              idx |-> kids.idx]

\* d.children.forEach(post): [nodes, idx]
postKids(ds, idx, depth) ==
  IF ds = <<>> THEN [nodes |-> <<>>, idx |-> idx]
  ELSE LET done == postKids(SubSeq(ds, 1, Len(ds) - 1), idx, depth)
           r == post(ds[Len(ds)], done.idx, depth)
       IN  [nodes |-> Append(done.nodes, r.node), idx |-> r.idx]

RECURSIVE maxDepth(_)
\* root.each(d => { if (!d.children) maxDepth = Math.max(maxDepth, d.depth) })
maxDepth(n) ==
  IF n.children = <<>> THEN n.depth
  ELSE LET ds == {maxDepth(n.children[i]) : i \in 1..Len(n.children)}
       IN  CHOOSE m \in ds : \A k \in ds : k <= m

RECURSIVE assignX(_, _, _, _, _)

\* assignX as it would be if a leaf were put at its own depth
assignXLeafAtDepth(n, mode, parentX, isRoot, deepest) ==
  LET x == IF isRoot THEN 0
           ELSE IF mode = "phylogram" THEN parentX + LenOrZero(n.data)
           ELSE n.depth
  IN  [data |-> n.data, depth |-> n.depth, y |-> n.y, ux |-> x,
       children |-> [i \in 1..Len(n.children) |->
                       assignX(n.children[i], mode, x, FALSE, deepest)]]

\* assignX of the layout: the node n with its unscaled x, in the units of
\* the lengths in phylogram mode and in levels otherwise
assignX(n, mode, parentX, isRoot, deepest) ==
  LET x == IF isRoot THEN 0
           ELSE IF mode = "phylogram" THEN parentX + LenOrZero(n.data)
           ELSE IF n.children = <<>> THEN deepest ELSE n.depth
  IN  [data |-> n.data, depth |-> n.depth, y |-> n.y, ux |-> x,
       children |-> [i \in 1..Len(n.children) |->
                       assignX(n.children[i], mode, x, FALSE, deepest)]]

RECURSIVE descendants(_)
\* root.descendants(), in pre-order
descendants(n) ==
  <<n>> \o Flatten([i \in 1..Len(n.children) |-> descendants(n.children[i])])

\* d3.max of the unscaled x of the nodes
xMax(n) ==
  LET all == descendants(n)
      xs == {all[i].ux : i \in 1..Len(all)}
  IN  CHOOSE m \in xs : \A k \in xs : k <= m

\* the number 1 in the units of the unscaled x
XOne(mode) == IF mode = "phylogram" THEN Unit ELSE 1

\* xScale as it would be if the domain ended at xMax
xScaleToMax(v, mode, largest) ==
  [v |-> v, domain |-> largest, range |-> xScaleWidth]

\* d3.scaleLinear().domain([0, Math.max(1, xMax)]).range([0, xScaleWidth])
\* applied to v: the pixel v * range / domain, held as its three parts
xScale(v, mode, largest) ==
  [v |-> v, domain |-> Max(XOne(mode), largest), range |-> xScaleWidth]

\* the nodes of the layout of the display tree d in mode mode, in pre-order:
\* [x, y, d], d the node of the hierarchy
LayoutNodes(d, mode) ==
  LET placed == post(d, 0, 0).node
      root == assignX(placed, mode, 0, TRUE, maxDepth(placed))
      all == descendants(root)
      largest == xMax(root)
  IN  [i \in 1..Len(all) |->
         [x |-> xScale(all[i].ux, mode, largest), y |-> all[i].y, d |-> all[i]]]

\* nodes with no length, a short, a long or a negative one, collapsed or not
LayoutLabels ==
  {[TreeNode(0, <<>>, length, <<>>) EXCEPT !.collapsed = folded] :
     length \in {Undef, Num(Unit \div 4), Num(7 * (Unit \div 10)), Num(-(Unit \div 4))},
     folded \in BOOLEAN}

\* the layout memo on probe.arg.tree, the layout mode being probe.arg.layout
callLayout ==
  /\ probe.fn = "layout" /\ ~probe.out.done
  /\ probe' = [probe EXCEPT
                 !.out = [done |-> TRUE,
                          nodes |-> LayoutNodes(displayTree(probe.arg.tree),
                                                probe.arg.layout)]]
  /\ IdleEditor

NextLayout == callLayout

\* the layout of the labelled trees and of the example tree, ids given
SpecLayout ==
  /\ \E t \in {WithIds(u) : u \in TreesUpTo(LayoutLabels)}
               \cup {WithIds(parseNewick(EXAMPLE).tree)},
        mode \in LayoutModes :
        MountWith(Idle, Call("layout", [tree |-> t, layout |-> mode]))
  /\ [][NextLayout]_vars

\* ----------------------------------------------------- useVersionCheck ---
\* the checks that may be in flight at a time, and the runs of the effect
MaxChecks == 2
MaxEffects == 2

\* APP_VERSION of ./version, and what version.json may hold as its version:
\* nothing, the version of the bundle, another one
APP_VERSION == "1.0.0"
Versions == {"", APP_VERSION, "1.0.1"}

\* the condition of onUpdateDetected() as it would be without !cancelled
notifyWhateverCancelled(cancelled, serverVersion) ==
  serverVersion # "" /\ serverVersion # APP_VERSION

\* !cancelled && serverVersion && serverVersion !== APP_VERSION
notify(cancelled, serverVersion) ==
  ~cancelled /\ serverVersion # "" /\ serverVersion # APP_VERSION

\* the last step of the version check: the operation, the run of the effect
\* it belongs to, whether the cleanup of that run had not run yet, the
\* version read, and whether onUpdateDetected was called
Step(op, of, live, version, called) ==
  [op |-> op, of |-> of, live |-> live, version |-> version, called |-> called]

\* check() of run g of the effect, up to its first await
check(g) == [of |-> g, at |-> "fetch"]

\* the cleanup of the effect: cancelled = true; clearInterval(timer)
cleanupKeepingTimer(v) ==
  [v EXCEPT !.cancelled = @ \cup {v.effect}]

cleanup(v) ==
  [v EXCEPT !.cancelled = @ \cup {v.effect}, !.timers = @ \ {v.effect}]

\* App after its first render: the effect has run once, its check is
\* awaiting fetch and its interval is set
VersionCheckMounted ==
  [done |-> FALSE, mounted |-> TRUE, effect |-> 1, cancelled |-> {}, timers |-> {1},
   checks |-> <<check(1)>>, showUpdateToast |-> FALSE, dirty |-> FALSE,
   log |-> Step("mount", 1, TRUE, "", FALSE)]

\* the interval of run g of the effect fires: check()
timerTick ==
  /\ probe.fn = "useVersionCheck"
  /\ Len(probe.out.checks) < MaxChecks
  /\ \E g \in probe.out.timers :
        probe' = [probe EXCEPT
                    !.out.checks = Append(@, check(g)),
                    !.out.log = Step("tick", g, g \notin probe.out.cancelled, "", FALSE)]
  /\ IdleEditor

\* the sequence s without its i-th element
Without(s, i) == SubSeq(s, 1, i - 1) \o SubSeq(s, i + 1, Len(s))

\* await fetch("version.json") settles: it rejects (catch), the response is
\* not ok (return), or the check goes on to await res.json()
fetchSettled ==
  /\ probe.fn = "useVersionCheck"
  /\ \E i \in 1..Len(probe.out.checks), outcome \in {"reject", "not ok", "ok"} :
        LET c == probe.out.checks[i]
        IN  /\ c.at = "fetch"
            /\ probe' = [probe EXCEPT
                            !.out.checks = IF outcome = "ok"
                                             THEN [@ EXCEPT ![i].at = "json"]
                                             ELSE Without(@, i),
                            !.out.log = Step("fetch", c.of, c.of \notin probe.out.cancelled,
                                             "", FALSE)]
  /\ IdleEditor

\* await res.json() settles: it rejects (catch), or the version is read and
\* onUpdateDetected, that is setShowUpdateToast(true), is called or not
jsonSettled ==
  /\ probe.fn = "useVersionCheck"
  /\ \E i \in 1..Len(probe.out.checks), outcome \in {"reject"} \cup Versions :
        LET c == probe.out.checks[i]
            called == /\ outcome # "reject"
                      /\ notify(c.of \in probe.out.cancelled, outcome)
        IN  /\ c.at = "json"
            /\ probe' = [probe EXCEPT
                            !.out.checks = Without(@, i),
                            !.out.showUpdateToast = @ \/ called,
                            !.out.dirty = @ \/ (called /\ probe.out.mounted
                                                  /\ ~probe.out.showUpdateToast),
                            !.out.log = Step("json", c.of, c.of \notin probe.out.cancelled,
                                             IF outcome = "reject" THEN "" ELSE outcome,
                                             called)]
  /\ IdleEditor

\* Dismiss: setShowUpdateToast(false)
dismiss ==
  /\ probe.fn = "useVersionCheck"
  /\ probe.out.mounted /\ probe.out.showUpdateToast
  /\ probe' = [probe EXCEPT
                 !.out.showUpdateToast = FALSE,
                 !.out.dirty = TRUE,
                 !.out.log = Step("dismiss", probe.out.effect, TRUE, "", FALSE)]
  /\ IdleEditor

\* App renders again after its state changed: onUpdateDetected is a new
\* function, so the effect is cleaned up and run again, with a check at once
render ==
  /\ probe.fn = "useVersionCheck"
  /\ probe.out.mounted /\ probe.out.dirty
  /\ probe.out.effect < MaxEffects
  /\ Len(probe.out.checks) < MaxChecks
  /\ LET g == probe.out.effect + 1
     IN  probe' = [probe EXCEPT
                     !.out = [cleanup(@) EXCEPT
                                !.effect = g,
                                !.timers = @ \cup {g},
                                !.checks = Append(@, check(g)),
                                !.dirty = FALSE,
                                !.log = Step("render", g, TRUE, "", FALSE)]]
  /\ IdleEditor

\* App is unmounted: the cleanup of the effect runs
unmount ==
  /\ probe.fn = "useVersionCheck"
  /\ probe.out.mounted
  /\ probe' = [probe EXCEPT
                 !.out = [cleanup(@) EXCEPT
                            !.mounted = FALSE,
                            !.log = Step("unmount", probe.out.effect, FALSE, "", FALSE)]]
  /\ IdleEditor

NextVersionCheck ==
  \/ timerTick
  \/ fetchSettled
  \/ jsonSettled
  \/ dismiss
  \/ render
  \/ unmount

SpecVersionCheck ==
  /\ MountWith(Idle, [fn |-> "useVersionCheck", arg |-> <<>>, out |-> VersionCheckMounted])
  /\ [][NextVersionCheck]_vars

\* nodes with a length or not, painted or not
PaintedLabels ==
  {[TreeNode(0, <<>>, length, <<>>) EXCEPT !.edgeColor = paint[1], !.color = paint[2]] :
     length \in {Undef, Num(Unit \div 4), Num(Unit \div 2)},
     paint \in {<<"", "">>, <<"red", "blue">>}}

\* the names that tell the nodes of a tree apart
Letter(k) == <<"N", DigitChar(k)>>

\* t with its ids given and every node named after its id
Named(t) ==
  LET h == Load(WithIds(t))
  IN  clone([k \in 1..Len(h) |-> [h[k] EXCEPT !.name = Letter(h[k].id)]], 1)

\* the trees handed to the rerooting functions, ids given: the painted trees,
\* their nodes told apart by name, and the example tree
RerootTrees ==
  {Named(t) : t \in TreesUpTo(PaintedLabels)} \cup {WithIds(parseNewick(EXAMPLE).tree)}

\* an object that is part of no tree
Detached == TreeNode(0, <<"Z">>, Undef, <<>>)

\* the heap of a call on tree t: the tree's objects, the root at key 1 and
\* every object at the key that is its id, and after them the detached one
CallHeap(t) == Append(Load(t), Detached)

\* the parent-child pairs of ids of t, and the pairs with an id (the one
\* after t's last) that no node of t carries
EdgeInputs(t) ==
  LET h == Load(t)
      n == Len(h)
  IN  {<<pc[1], pc[2]>> : pc \in {ParentPairs(h, 1)[i] : i \in 1..Len(ParentPairs(h, 1))}}
        \cup {<<n + 1, c>> : c \in 1..(n + 1)}
        \cup {<<q, n + 1>> : q \in 1..n}

\* the calls of the rerooting functions on tree t
RerootCalls(t) ==
  {Call("rerootAt", [tree |-> t, at |-> x]) : x \in 1..Len(CallHeap(t))}
    \cup {Call("rerootOnEdge", [tree |-> t, parentId |-> e[1], childId |-> e[2]]) :
            e \in EdgeInputs(t)}

\* rerootAt(root, newRootData), root being probe.arg.tree and newRootData
\* the object at key probe.arg.at
callRerootAt ==
  /\ probe.fn = "rerootAt" /\ ~probe.out.done
  /\ LET r == rerootAt(CallHeap(probe.arg.tree), 1, probe.arg.at)
     IN  probe' = [probe EXCEPT
                     !.out = [done |-> TRUE, back |-> FALSE, heap |-> r.heap, key |-> r.key]]
  /\ IdleEditor

\* the object of the tree at key root of heap h that was built from the
\* object named name (0: none)
ImageOf(h, root, name) ==
  LastWhere(PreOrder(h, root), {k \in 1..Len(h) : h[k].name = name})

\* rerootAt of the rerooted tree at the image of the first root
callRerootBack ==
  /\ probe.fn = "rerootAt" /\ probe.out.done /\ ~probe.out.back
  /\ probe.arg.at < Len(CallHeap(probe.arg.tree))
  /\ LET r == rerootAt(probe.out.heap, probe.out.key,
                       ImageOf(probe.out.heap, probe.out.key, probe.arg.tree.name))
     IN  probe' = [probe EXCEPT
                     !.out = [done |-> TRUE, back |-> TRUE, heap |-> r.heap, key |-> r.key]]
  /\ IdleEditor

\* rerootOnEdge(treeRoot, parentId, childId), __ID being past the tree's ids
callRerootOnEdge ==
  /\ probe.fn = "rerootOnEdge" /\ ~probe.out.done
  /\ LET h == CallHeap(probe.arg.tree)
         r == rerootOnEdge(h, 1, probe.arg.parentId, probe.arg.childId, Len(h))
     IN  probe' = [probe EXCEPT
                     !.out = [done |-> TRUE, back |-> FALSE, heap |-> r.heap, key |-> r.key]]
  /\ IdleEditor

NextReroot ==
  \/ callRerootAt
  \/ callRerootBack
  \/ callRerootOnEdge

SpecReroot ==
  /\ \E t \in RerootTrees : \E call \in RerootCalls(t) : MountWith(Idle, call)
  /\ [][NextReroot]_vars

\* nodes with no length, a length of 0, a length of a few units (of 1e-9) or
\* an ordinary length
SplitLabels ==
  {TreeNode(0, <<>>, length, <<>>) :
     length \in {Undef, Num(0), Num(2), Num(3), Num(Unit \div 4), Num(Unit \div 2)}}

\* the distances t = f * L with 0 < f < 1 that the model's numbers hold, for
\* the child o of the edge: 0 when L is 0
SplitPoints(o) ==
  LET L == LenOrZero(o)
  IN  IF L = 0 THEN {0} ELSE {1, L \div 2, L - 1}

\* the calls of splitEdge on the edges of tree t
SplitCalls(t) ==
  LET h == Load(t)
      pairs == ParentPairs(h, 1)
  IN  {Call("splitEdge", [tree |-> t, parent |-> pairs[i][1], child |-> pairs[i][2], t |-> d]) :
         i \in 1..Len(pairs), d \in UNION {SplitPoints(h[pairs[j][2]]) : j \in 1..Len(pairs)}}

\* splitEdge(parentNode, childNode, t) on the objects at the keys
\* probe.arg.parent and probe.arg.child of probe.arg.tree
callSplitEdge ==
  /\ probe.fn = "splitEdge" /\ ~probe.out.done
  /\ LET r == splitEdge(Load(probe.arg.tree), probe.arg.parent, probe.arg.child, probe.arg.t)
     IN  probe' = [probe EXCEPT !.out = [done |-> TRUE, heap |-> r.heap, key |-> r.key]]
  /\ IdleEditor

NextSplit == callSplitEdge

SpecSplit ==
  /\ \E t \in TreesUpTo(SplitLabels) : \E call \in SplitCalls(t) :
        /\ call.arg.t \in SplitPoints(Load(t)[call.arg.child])
        /\ MountWith(Idle, call)
  /\ [][NextSplit]_vars

\* toNewick(probe.arg)
callToNewick ==
  /\ probe.fn = "toNewick" /\ ~probe.out.done
  /\ probe' = [probe EXCEPT !.out = [done |-> TRUE, text |-> toNewick(probe.arg)]]
  /\ IdleEditor

NextToNewick == callToNewick

SpecToNewick ==
  /\ \E t \in TreesUpTo(NamedLabels) : MountWith(Idle, Call("toNewick", t))
  /\ [][NextToNewick]_vars

\* parseNewick(probe.arg)
callParseNewick ==
  /\ probe.fn = "parseNewick" /\ ~probe.out.done
  /\ probe' = [probe EXCEPT !.out = [done |-> TRUE,
                                      ok |-> parseNewick(probe.arg).ok,
                                      tree |-> parseNewick(probe.arg).tree]]
  /\ IdleEditor

\* the file made by downloadNewick read back through the NEWICK box:
\* parseNewick(toNewick(tree))
callRoundTrip ==
  /\ historyInit
  /\ probe.fn = "roundTrip" /\ ~probe.out.done
  /\ probe' = [probe EXCEPT !.arg = tree,
                            !.out = [done |-> TRUE,
                                     ok |-> parseNewick(toNewick(tree)).ok,
                                     tree |-> parseNewick(toNewick(tree)).tree]]
  /\ IdleEditor

NextParse == callParseNewick

SpecParse ==
  /\ \E text \in ParseInputs : MountWith(Idle, Call("parseNewick", text))
  /\ [][NextParse]_vars

\* the trees that Apply, rename and edit length make current, written out
\* and read back
NextRoundTrip ==
  \/ historyInitEffect
  \/ onClickNode
  \/ applyText
  \/ actionRenameTip
  \/ actionEditLength
  \/ callRoundTrip

SpecRoundTrip ==
  /\ MountWith([history |-> MaxEditHistory, nodes |-> MaxNodes, ids |-> MaxTextId],
               Call("roundTrip", <<>>))
  /\ [][NextRoundTrip]_vars

\* ------------------------------------------------------------ properties ---
\* the nodes of tree t
Nodes(t) == LET h == Load(t) IN {h[k] : k \in 1..Len(h)}

\* the handlers that end in commitTree without skipHistory
CommitOps ==
  {"applyText", "loadExample", "actionCollapseSelected", "actionExpandSelected",
   "actionDeleteSelected", "actionAddLeaf", "actionFlipNode", "actionReroot",
   "actionRenameTip", "actionEditLength", "actionEditBranchWidth",
   "actionColorSelected"}

\* the edit actions among them
EditOps == CommitOps \ {"applyText", "loadExample"}

\* l records a handler that made a history-recording commit
Recording(l) == l.ok /\ l.op \in CommitOps

\* the pointer is on the newest entry
AtTip == historyIndex = Len(historyStack) - 1

\* C1: with the pointer on the entry of the most recent history-recording
\* commit (historyIndex > 0), one undo makes the current tree equal to the tree
\* that was current immediately before that commit.
C1_UndoRestoresPrior ==
  [][(historyIndex > 0 /\ AtTip /\ last' = Did("handleUndo")) => tree' = before]_vars

\* C2: an edit action changes the history only by appending a new entry: the
\* entries it retains (all of them, when the pointer is on the newest entry
\* and the stack is below its limit) have the content they had before.
C2_EntriesImmutable ==
  [][(last'.ok /\ last'.op \in EditOps /\ AtTip /\ Len(historyStack) < HISTORY_LIMIT)
       => historyStack' = Append(historyStack, tree')]_vars

\* C3: history is linear.  A recording commit made with the pointer at an
\* index i below the last discards every entry above i, appends the new
\* snapshot and leaves the pointer on it; redo with the pointer on the last
\* entry changes nothing; and undo and redo only ever make current an entry
\* the stack still holds, so a discarded entry never becomes current again.
C3_HistoryLinear ==
  [][ /\ (Recording(last') /\ ~AtTip)
          => /\ historyStack' = Append(SubSeq(historyStack, 1, historyIndex + 1), tree')
             /\ historyIndex' = Len(historyStack') - 1
      /\ (last'.op = "handleRedo" /\ AtTip)
          => UNCHANGED <<tree, historyStack, historyIndex>>
      /\ (last' \in {Did("handleUndo"), Did("handleRedo")})
          => /\ historyStack' = historyStack
             /\ tree' = historyStack'[historyIndex' + 1] ]_vars

\* C3's case: a recording commit has just discarded entries beyond the pointer
C3_Witness == Recording(last) /\ last.cut > 0 /\ AtTip /\ Len(historyStack) > 1

\* C4: the history stack never holds more than HISTORY_LIMIT snapshots; a
\* commit made on a full stack discards the oldest entry; undo steps one entry
\* back and stops at the oldest retained entry, so that after more than
\* HISTORY_LIMIT commits in a row repeated undo ends on the
\* HISTORY_LIMIT-th snapshot from the latest.
C4_HistoryBounded ==
  [][ /\ Len(historyStack') <= HISTORY_LIMIT
      /\ (Recording(last') /\ AtTip /\ Len(historyStack) = HISTORY_LIMIT)
          => /\ historyStack' = Append(Tail(historyStack), tree')
             /\ historyIndex' = HISTORY_LIMIT - 1
      /\ (last'.op = "handleUndo" /\ historyIndex = 0)
          => UNCHANGED <<tree, historyStack, historyIndex>>
      /\ (last' = Did("handleUndo"))
          => /\ tree' = historyStack[historyIndex]
             /\ historyIndex' = historyIndex - 1 ]_vars

\* C4's case: more than HISTORY_LIMIT commits were made in a row (the oldest
\* retained entry is not the tree the editor started with: each Load example
\* takes 7 fresh ids), undo was repeated until it was refused, and the current
\* tree is the HISTORY_LIMIT-th from the latest
C4_Witness ==
  /\ last = Refused("handleUndo")
  /\ historyIndex = 0
  /\ Len(historyStack) = HISTORY_LIMIT
  /\ historyStack[1].id > 8
  /\ tree = historyStack[1]
  /\ tree.id + 7 * (HISTORY_LIMIT - 1) = historyStack[HISTORY_LIMIT].id

\* C5: undo at the oldest entry and redo at the newest change neither the
\* tree nor the pointer nor the stack, and no undo or redo changes the stack.
C5_UndoRedoFrame ==
  [][ /\ (last'.op \in {"handleUndo", "handleRedo"}) => historyStack' = historyStack
      /\ (last'.op = "handleUndo" /\ historyIndex = 0)
          => (last' = Refused("handleUndo") /\ UNCHANGED <<tree, historyIndex>>)
      /\ (last'.op = "handleRedo" /\ AtTip)
          => (last' = Refused("handleRedo") /\ UNCHANGED <<tree, historyIndex>>) ]_vars

\* C5's cases: undo was refused at the oldest of several entries; redo went
\* through from there
C5_Witness ==
  /\ last = Refused("handleUndo")
  /\ historyIndex = 0
  /\ Len(historyStack) > 1

\* C6: no two distinct nodes of the current tree carry the same id.
C6_IdsUnique ==
  LET h == Load(tree)
  IN  \A i, j \in 1..Len(h) : (i # j /\ h[i].id # 0) => h[i].id # h[j].id

\* C7: the structure an edit action hands to commit is a tree: no object of it
\* is reached along two paths from the root.
C7_AlwaysTree == (last.ok /\ last.op \in EditOps) => ~last.twice

\* C8: every length of the current tree, when present, is a finite number
\* greater than or equal to 0.
C8_LengthsValid ==
  \A n \in Nodes(tree) : n.length = Undef \/ (IsFinite(n.length) /\ n.length.v >= 0)

\* C9: every node of the current tree whose collapsed flag is true has a
\* non-empty children list.
C9_CollapsedHasChildren ==
  \A n \in Nodes(tree) : n.collapsed => n.children # <<>>

\* C10: Apply on a text that parseNewick rejects leaves the current tree, the
\* history stack and the history pointer as they were.
C10_FailedParseNoCommit ==
  [][last' = Refused("applyText") => UNCHANGED <<tree, historyStack, historyIndex>>]_vars

\* C10's case: Apply was refused while the history already held a commit
C10_Witness ==
  /\ last = Refused("applyText")
  /\ Len(historyStack) > 1
  /\ tree = historyStack[historyIndex + 1]

\* the text a is negative or not a number
C11_BadLength(a) ==
  LET v == parseFloat(a, 9) IN v.t = "nan" \/ (v.t \in {"num", "inf"} /\ v.v < 0)

\* the text a is non-positive or not a number
C11_BadWidth(a) ==
  LET v == parseFloat(a, 9) IN v.t = "nan" \/ (v.t \in {"num", "inf"} /\ v.v <= 0)

\* the selected node has children
C11_TargetHasChildren ==
  LET h == Load(tree)
      t == findById(h, 1, TargetId)
  IN  selection.type # "none" /\ t # 0 /\ h[t].children # <<>>

\* the selected node is the root
C11_TargetIsRoot == selection.type = "node" /\ selection.id = tree.id

\* C11 as stated: an edit of a length with a negative or non-numeric value,
\* of a width with a non-positive or non-numeric value, a rename of a node
\* with children and a delete of the root leave the tree and the history as
\* they were.
C11_ValidationAborts ==
  [][ ( \/ last'.op = "actionEditLength" /\ C11_BadLength(last'.arg)
        \/ last'.op = "actionEditBranchWidth" /\ C11_BadWidth(last'.arg)
        \/ last'.op = "actionRenameTip" /\ C11_TargetHasChildren
        \/ last'.op = "actionDeleteSelected" /\ C11_TargetIsRoot )
      => UNCHANGED <<tree, historyStack, historyIndex>> ]_vars

\* C11 amended: the same, the width being a non-blank text (a blank width
\* clears the node's width and commits).
C11_ValidationAbortsNonBlank ==
  [][ ( \/ last'.op = "actionEditLength" /\ C11_BadLength(last'.arg)
        \/ /\ last'.op = "actionEditBranchWidth"
           /\ Trim(last'.arg) # <<>>
           /\ C11_BadWidth(last'.arg)
        \/ last'.op = "actionRenameTip" /\ C11_TargetHasChildren
        \/ last'.op = "actionDeleteSelected" /\ C11_TargetIsRoot )
      => UNCHANGED <<tree, historyStack, historyIndex>> ]_vars

\* C11's case: a negative length was refused for a selected node of a
\* committed tree
C11_Witness ==
  /\ last = [Refused("actionEditLength") EXCEPT !.arg = <<"-", "1">>]
  /\ selection.type = "node"
  /\ findById(Load(tree), 1, selection.id) # 0
  /\ historyIndex > 0

RECURSIVE C12_Scan(_, _, _, _)
\* Reading text s from position i on, depth groups being open: a group is
\* left open, i.e. a subtree inside parentheses is followed by something
\* other than "," or ")" (the end of the text or ";").  mode is "start"
\* where a subtree begins, "name" in a name, "len" in a length.  A "(" opens
\* a group only where a subtree begins; outside any group the first ",", ")"
\* or ";" ends the reading.
C12_Scan(s, i, depth, mode) ==
  IF i > Len(s) THEN depth > 0
  ELSE IF mode = "start"
    THEN IF s[i] \in WS THEN C12_Scan(s, i + 1, depth, "start")
         ELSE IF s[i] = "(" THEN C12_Scan(s, i + 1, depth + 1, "start")
         ELSE C12_Scan(s, i, depth, "name")
  ELSE IF s[i] = ":" /\ mode = "name" THEN C12_Scan(s, i + 1, depth, "len")
  ELSE IF s[i] = "," THEN depth > 0 /\ C12_Scan(s, i + 1, depth, "start")
  ELSE IF s[i] = ")" THEN depth > 0 /\ C12_Scan(s, i + 1, depth - 1, "name")
  ELSE IF s[i] = ";" THEN depth > 0
  ELSE C12_Scan(s, i + 1, depth, mode)

\* some opening parenthesis of s is not closed
C12_Unclosed(s) == C12_Scan(s, 1, 0, "start")

\* C12: parseNewick throws, and returns no tree, for every text in which
\* some opening parenthesis is not closed.
C12_UnclosedRaises ==
  (probe.fn = "parseNewick" /\ probe.out.done /\ C12_Unclosed(probe.arg))
    => ~probe.out.ok

\* C12's case: the scenario's text was parsed and was refused
C12_Witness ==
  /\ probe = [Call("parseNewick", UnclosedText)
                EXCEPT !.out = [done |-> TRUE, ok |-> FALSE,
                                tree |-> TreeNode(0, <<>>, Undef, <<>>)]]
  /\ C12_Unclosed(probe.arg)

\* name with its whitespace replaced by underscores, "Unnamed" for the empty
\* name of a leaf
C13_Normal(name, leaf) ==
  IF name = <<>> THEN (IF leaf THEN UnnamedText ELSE <<>>)
  ELSE [i \in 1..Len(name) |-> IF name[i] \in WS THEN "_" ELSE name[i]]

\* length x to 6 decimals, in units of 10^-6 (round half away from zero)
C13_Micro(x) ==
  IF x.v < 0 THEN 0 - ((500 - x.v) \div 1000) ELSE (x.v + 500) \div 1000

\* lengths x and y are both absent, or the same number to 6 decimals
C13_SameLength(x, y) ==
  IF IsFinite(x) /\ IsFinite(y) THEN C13_Micro(x) = C13_Micro(y)
  ELSE ~IsNumber(x) /\ ~IsNumber(y)

RECURSIVE C13_Same(_, _)
\* trees t and u have the same shape and child order, the same names up to
\* normalisation and the same lengths to 6 decimals
C13_Same(t, u) ==
  /\ Len(t.children) = Len(u.children)
  /\ C13_Normal(t.name, t.children = <<>>) = u.name
  /\ C13_SameLength(t.length, u.length)
  /\ \A i \in 1..Len(t.children) : C13_Same(t.children[i], u.children[i])

\* C13: for every current tree t, parseNewick(toNewick(t)) has the topology,
\* the names (up to whitespace-to-underscore replacement and empty-name
\* defaulting) and the lengths (to 6 decimals) of t.
C13_RoundTrip ==
  (probe.fn = "roundTrip" /\ probe.out.done)
    => (probe.out.ok /\ C13_Same(probe.arg, probe.out.tree))

\* the number of places of text where pat stands
C14_Count(text, pat) ==
  Cardinality({i \in 1..(Len(text) - Len(pat) + 1) :
                 SubSeq(text, i, i + Len(pat) - 1) = pat})

\* the number of nodes of t without a name
C14_Unnamed(t) == Cardinality({k \in 1..Len(Load(t)) : Load(t)[k].name = <<>>})

\* the number of leaves of t without a name
C14_UnnamedLeaves(t) ==
  Cardinality({k \in 1..Len(Load(t)) :
                 Load(t)[k].name = <<>> /\ Load(t)[k].children = <<>>})

\* C14 as stated: toNewick writes "Unnamed" once for every node without a
\* name, leaf or internal (no name of the trees checked holds that text).
C14_EveryUnnamed ==
  (probe.fn = "toNewick" /\ probe.out.done)
    => C14_Count(probe.out.text, UnnamedText) = C14_Unnamed(probe.arg)

\* C14 amended: toNewick writes "Unnamed" once for every leaf without a
\* name, and for no other node: an internal node without a name is written
\* with no name at all.
C14_UnnamedLeavesOnly ==
  (probe.fn = "toNewick" /\ probe.out.done)
    => C14_Count(probe.out.text, UnnamedText) = C14_UnnamedLeaves(probe.arg)

\* C14's case: a tree with an unnamed internal node and an unnamed leaf has
\* been written
C14_Witness ==
  /\ probe.fn = "toNewick" /\ probe.out.done
  /\ probe.arg.name = <<>> /\ probe.arg.children # <<>>
  /\ C14_UnnamedLeaves(probe.arg) = 1
  /\ C14_Unnamed(probe.arg) = 2

\* the number of leaves below (or at) key k of heap h
C15_Leaves(h, k) ==
  LET below == PreOrder(h, k)
  IN  Cardinality({i \in 1..Len(below) : h[below[i]].children = <<>>})

\* C15: for a tree with its ids assigned, the map of tip counts gives for
\* every node's id the number of leaves below that node (1 for a leaf), and
\* its value for the root is the length of collectTips(root).
C15_TipCounts ==
  (probe.fn = "tipCounts" /\ probe.out.done)
    => LET h == Load(probe.arg)
       IN  /\ DOMAIN probe.out.map = {h[k].id : k \in 1..Len(h)}
           /\ \A k \in 1..Len(h) : probe.out.map[h[k].id] = C15_Leaves(h, k)
           /\ \A k \in 1..Len(h) : h[k].children = <<>> => probe.out.map[h[k].id] = 1
           /\ probe.out.map[probe.arg.id] = probe.out.tipCount

\* C15's case: the tips of a tree with two leaves under its root and an
\* internal node have been counted
C15_Witness ==
  /\ probe.fn = "tipCounts" /\ probe.out.done
  /\ Len(probe.arg.children) = 2
  /\ probe.out.tipCount = 2

\* a first rerootAt at a node of the tree has returned
C16_Rerooted ==
  /\ probe.fn = "rerootAt" /\ probe.out.done /\ ~probe.out.back
  /\ probe.arg.at < Len(CallHeap(probe.arg.tree))

RECURSIVE C16_Sum(_, _, _)
\* the sum of the lengths (a missing one counting 0) of the objects ks of h
C16_Sum(h, ks, i) ==
  IF i > Len(ks) THEN 0 ELSE LenOrZero(h[ks[i]]) + C16_Sum(h, ks, i + 1)

\* the sum of all lengths of the tree at key root of heap h
C16_Total(h, root) == C16_Sum(h, PreOrder(h, root), 1)

\* every parent-child edge of the input tree is an edge of the result, between
\* the images of its two nodes and of its length, and the result has no other
\* node
C16_EdgesKept ==
  LET h == CallHeap(probe.arg.tree)
      rh == probe.out.heap
      Img(k) == ImageOf(rh, probe.out.key, h[k].name)
      Edge(a, b, len) ==
        /\ \E i \in 1..Len(rh[a].children) : rh[a].children[i] = b
        /\ rh[b].length = Num(len)
      pairs == ParentPairs(h, 1)
  IN  /\ Len(PreOrder(rh, probe.out.key)) = Len(PreOrder(h, 1))
      /\ \A i \in 1..Len(pairs) :
            /\ Img(pairs[i][1]) # 0 /\ Img(pairs[i][2]) # 0
            /\ \/ Edge(Img(pairs[i][1]), Img(pairs[i][2]), LenOrZero(h[pairs[i][2]]))
               \/ Edge(Img(pairs[i][2]), Img(pairs[i][1]), LenOrZero(h[pairs[i][2]]))

\* C16 as stated: rerootAt keeps every edge with its length, its result's
\* root carries no length, and the sum of all lengths of the result is that
\* of the input.
C16_EdgeLengthsKept ==
  C16_Rerooted
    => /\ C16_EdgesKept
       /\ probe.out.heap[probe.out.key].length = Undef
       /\ C16_Total(probe.out.heap, probe.out.key) = C16_Total(CallHeap(probe.arg.tree), 1)

\* C16: rerootAt keeps every edge with its length (a missing length counted
\* as 0), its result's root carries no length, and the sum of all lengths of
\* the result is that of the input less the length that the input's root
\* carried, which is the length of no edge.
C16_EdgeLengthsKeptRootDropped ==
  C16_Rerooted
    => /\ C16_EdgesKept
       /\ probe.out.heap[probe.out.key].length = Undef
       /\ C16_Total(probe.out.heap, probe.out.key)
            = C16_Total(CallHeap(probe.arg.tree), 1) - LenOrZero(probe.arg.tree)

\* C16's case: a tree of three nodes whose root carries a length has been
\* rerooted at a node below the root, along an edge that has a length
C16_Witness ==
  /\ C16_Rerooted
  /\ probe.arg.at > 1
  /\ Len(CallHeap(probe.arg.tree)) = 4
  /\ probe.arg.tree.length = Num(Unit \div 4)
  /\ CallHeap(probe.arg.tree)[probe.arg.at].length = Num(Unit \div 2)

\* how often each name is the name of a leaf of the tree at key root of h
C17_LeafNames(h, root) ==
  LET tips == collectTips(h, root)
  IN  [nm \in {h[tips[i]].name : i \in 1..Len(tips)} |->
         Cardinality({i \in 1..Len(tips) : h[tips[i]].name = nm})]

\* C17: the tree that rerooting at a node X of a tree produces has the leaf
\* names of the input, each as often as the input has it, whether X is a leaf
\* or an internal node.
C17_LeafNamesKept ==
  C16_Rerooted
    => C17_LeafNames(probe.out.heap, probe.out.key)
         = C17_LeafNames(CallHeap(probe.arg.tree), 1)

\* the tree has been rerooted at a node and back at the image of its root
C18_Back == probe.fn = "rerootAt" /\ probe.out.done /\ probe.out.back

\* C18 as stated: rerooting at a node X and then at the image of the first
\* root gives a tree with the leaf names of the first tree, each as often,
\* and with the same sum of all lengths.
C18_DoubleReroot ==
  C18_Back
    => /\ C17_LeafNames(probe.out.heap, probe.out.key)
            = C17_LeafNames(CallHeap(probe.arg.tree), 1)
       /\ C16_Total(probe.out.heap, probe.out.key) = C16_Total(CallHeap(probe.arg.tree), 1)

\* C18: rerooting at a node X and then at the image of the first root gives
\* a tree with the leaf names of the first tree, each as often, and with the
\* sum of all its lengths less the length that its root carried.
C18_DoubleRerootRootDropped ==
  C18_Back
    => /\ C17_LeafNames(probe.out.heap, probe.out.key)
            = C17_LeafNames(CallHeap(probe.arg.tree), 1)
       /\ C16_Total(probe.out.heap, probe.out.key)
            = C16_Total(CallHeap(probe.arg.tree), 1) - LenOrZero(probe.arg.tree)

\* C18's case: a tree of two leaves under a root that carries a length has
\* been rerooted at one of the leaves and back
C18_Witness ==
  /\ C18_Back
  /\ probe.arg.at > 1
  /\ Len(probe.arg.tree.children) = 2
  /\ probe.arg.tree.length = Num(Unit \div 2)
  /\ Len(collectTips(probe.out.heap, probe.out.key)) = 2

\* the name and the colours of the object o
C19_DataOf(o) == <<o.name, o.edgeColor, o.color>>

\* how often each name with its colours is the data of a node of the tree at
\* key root of h
C19_Data(h, root) ==
  LET nodes == PreOrder(h, root)
  IN  [d \in {C19_DataOf(h[nodes[i]]) : i \in 1..Len(nodes)} |->
         Cardinality({i \in 1..Len(nodes) : C19_DataOf(h[nodes[i]]) = d})]

\* C19: every node of the tree that rerootAt returns has the name, the edge
\* colour and the node colour of the node it was built from (the nodes of the
\* input being told apart by their names, the result holds each name with
\* the colours that the input has for it).
C19_DataCarried ==
  C16_Rerooted
    => C19_Data(probe.out.heap, probe.out.key) = C19_Data(CallHeap(probe.arg.tree), 1)

\* a rerooting function has returned from a call whose lookup missed:
\* rerootAt was given an object that is part of no tree, or rerootOnEdge an
\* id that no node of the tree carries
C20_Miss ==
  /\ probe.fn \in {"rerootAt", "rerootOnEdge"} /\ probe.out.done /\ ~probe.out.back
  /\ LET h == CallHeap(probe.arg.tree)
         Carried(id) == \E k \in 1..(Len(h) - 1) : h[k].id = id
     IN  IF probe.fn = "rerootAt" THEN probe.arg.at = Len(h)
         ELSE ~Carried(probe.arg.parentId) \/ ~Carried(probe.arg.childId)

\* C20: rerootAt called with a node that is not part of the tree, and
\* rerootOnEdge called with a parent id or a child id that no node of the
\* tree carries, return the root they were given and leave every object, and
\* every list of children, as it was.
C20_MissesAreNoOps ==
  C20_Miss => probe.out.key = 1 /\ probe.out.heap = CallHeap(probe.arg.tree)

\* C20's case: rerootOnEdge has returned from a call with the id of the
\* root, which has children, as the parent and an unknown id as the child
C20_Witness ==
  /\ C20_Miss
  /\ probe.fn = "rerootOnEdge"
  /\ probe.arg.parentId = 1
  /\ probe.arg.tree.children # <<>>

\* splitEdge has returned from a call on an edge whose child has a length
\* L >= 0
C21_Split ==
  /\ probe.fn = "splitEdge" /\ probe.out.done
  /\ IsFinite(Load(probe.arg.tree)[probe.arg.child].length)
  /\ Load(probe.arg.tree)[probe.arg.child].length.v >= 0

\* the length of the inserted node plus the new length of the child
C21_Sum ==
  probe.out.heap[probe.out.key].length.v + probe.out.heap[probe.arg.child].length.v

\* C21 as stated: after splitEdge on an edge of length L >= 0 at t = f * L,
\* 0 < f < 1, the length of the inserted node plus the new length of the
\* child is L.
C21_SplitSumsToL ==
  C21_Split => C21_Sum = Load(probe.arg.tree)[probe.arg.child].length.v

\* C21: after splitEdge on an edge of length L at t = f * L, 0 < f < 1, the
\* length of the inserted node plus the new length of the child is L when L
\* is at least 1e-9, the smallest length an inserted node is given; an edge
\* of length 0 is split into that smallest length and 0.
C21_SplitSumsToLOrEps ==
  C21_Split
    => LET L == Load(probe.arg.tree)[probe.arg.child].length.v
       IN  /\ L >= 1 => C21_Sum = L
           /\ L = 0 => /\ probe.out.heap[probe.out.key].length = Num(1)
                       /\ probe.out.heap[probe.arg.child].length = Num(0)

\* C21's case: an edge of an ordinary length has been split near its upper
\* end, where the distance is clamped
C21_Witness ==
  /\ C21_Split
  /\ Load(probe.arg.tree)[probe.arg.child].length = Num(Unit \div 2)
  /\ probe.arg.t = 1
  /\ probe.out.heap[probe.out.key].length.v > 1

\* the tree new is the tree old with a leaf added on the link from the node
\* with id pid to its child with id cid: a new node N stands where the child
\* stood, N holds the child and one new leaf, N and the child have half the
\* child's length each, and there is one tip more
C22_Added(old, new, pid, cid) ==
  LET h == Load(old)
      g == Load(new)
      P == findById(h, 1, pid)
      C == findById(h, 1, cid)
      idx == FirstIndex(h[P].children, C)
      P2 == findById(g, 1, pid)
      N == g[P2].children[idx]
      leaf == g[N].children[2]
      oldIds == {h[k].id : k \in 1..Len(h)}
  IN  /\ P # 0 /\ C # 0 /\ P2 # 0
      /\ idx > 0
      /\ Len(g[P2].children) = Len(h[P].children)
      /\ g[N].id \notin oldIds
      /\ Len(g[N].children) = 2
      /\ g[g[N].children[1]].id = cid
      /\ g[leaf].children = <<>> /\ g[leaf].id \notin oldIds
      /\ IsFinite(h[C].length)
           => /\ IsFinite(g[N].length) /\ 2 * g[N].length.v = h[C].length.v
              /\ g[g[N].children[1]].length = g[N].length
      /\ Len(collectTips(g, 1)) = Len(collectTips(h, 1)) + 1

\* C22: the add-leaf action on a link selection (P, C) leaves P with a new
\* internal node N where C stood among P's children, N having exactly the two
\* children C and one new leaf; N and C each get half the length C had, and
\* the tree has exactly one tip more.
C22_AddLeafOnEdge ==
  [][(selection.type = "link" /\ last'.op = "actionAddLeaf" /\ last'.ok)
       => C22_Added(tree, tree', selection.parentId, selection.childId)]_vars

\* node n has exactly two children, one of them with the id gone
C23_Parent(n, gone) ==
  /\ Len(n.children) = 2
  /\ \E i \in 1..2 : n.children[i].id = gone

\* the child of n that stays, with the length it has once n is spliced out:
\* the sum of the two lengths (a missing one counting 0, none if both miss)
C23_Stays(n, gone) ==
  LET c == IF n.children[1].id = gone THEN n.children[2] ELSE n.children[1]
  IN  [c EXCEPT !.length = IF IsFinite(n.length) \/ IsFinite(c.length)
                             THEN Num(LenOrZero(n) + LenOrZero(c)) ELSE c.length]

RECURSIVE C23_Spliced(_, _)
\* the tree t with every child that is the parent of gone, none of them the
\* root, replaced by the child of it that stays, and nothing else changed
C23_Spliced(t, gone) ==
  [t EXCEPT !.children =
     [i \in 1..Len(t.children) |->
        IF C23_Parent(t.children[i], gone) THEN C23_Stays(t.children[i], gone)
        ELSE C23_Spliced(t.children[i], gone)]]

RECURSIVE C23_Below(_)
\* the subtrees of tree t other than t itself
C23_Below(t) ==
  UNION {{t.children[i]} \cup C23_Below(t.children[i]) : i \in 1..Len(t.children)}

\* the selected node of tree t is one of the two children of a node that is
\* not the root, ids being unique
C23_Case(t) ==
  /\ selection.type = "node"
  /\ LET h == Load(t) IN \A i, j \in 1..Len(h) : h[i].id = h[j].id => i = j
  /\ \E n \in C23_Below(t) : C23_Parent(n, selection.id)

C23_NoOtherUnary(t, gone) ==
  \A n \in C23_Below(t) : Len(n.children) = 1 => n.children[1].id = gone

C24_NoUnaryAfterDelete ==
  (last.op = "actionDeleteSelected" /\ last.ok)
    => \A n \in Nodes(tree) : Len(n.children) # 1

RECURSIVE C26_Paths(_)
\* the nodes of tree t, each as the path of child indices that leads to it
C26_Paths(t) ==
  {<<>>} \cup UNION {{<<i>> \o q : q \in C26_Paths(t.children[i])} : i \in 1..Len(t.children)}

RECURSIVE C26_At(_, _)
\* the node of tree t at path q
C26_At(t, q) == IF q = <<>> THEN t ELSE C26_At(t.children[Head(q)], Tail(q))

\* node n is flagged collapsed and has children
C26_Folded(n) == n.collapsed /\ n.children # <<>>

\* the node of t at path q is below a node that is flagged collapsed and has
\* children
C26_Hidden(t, q) == \E k \in 0..(Len(q) - 1) : C26_Folded(C26_At(t, SubSeq(q, 1, k)))

\* the node at path q of tree t is in the display tree d as a childless
\* placeholder that carries the number of leaves below the node
C26_Placeholder(t, d, q) ==
  /\ q \in C26_Paths(d)
  /\ C26_At(d, q).id = C26_At(t, q).id
  /\ C26_At(d, q).children = <<>>
  /\ C26_At(d, q).isCollapsedPlaceholder
  /\ C26_At(d, q).collapsedTipCount = Len(collectTips(Load(C26_At(t, q)), 1))

\* the node at path q of tree t is in the display tree d with its fields and
\* with as many children (each of them at its own path, so in the same order)
C26_Open(t, d, q) ==
  /\ q \in C26_Paths(d)
  /\ C26_At(d, q).id = C26_At(t, q).id
  /\ C26_At(d, q).name = C26_At(t, q).name
  /\ C26_At(d, q).length = C26_At(t, q).length
  /\ Len(C26_At(d, q).children) = Len(C26_At(t, q).children)
  /\ ~C26_At(d, q).isCollapsedPlaceholder

C27_Leaves(ns) == LET IsLeaf(n) == n.d.children = <<>> IN SelectSeq(ns, IsLeaf)

\* C27: the k-th leaf of the display tree from the left (k from 0) gets
\* y = k * yGap, and the y of every internal node is the arithmetic mean of
\* the y of its direct children, in either layout mode.
C27_LayoutY ==
  historyInit
    => \A mode \in LayoutModes :
         LET ns == LayoutNodes(displayTree(tree), mode)
         IN  /\ \A k \in 1..Len(C27_Leaves(ns)) : C27_Leaves(ns)[k].y = (k - 1) * yGap
             /\ \A i \in 1..Len(ns) :
                   ns[i].d.children # <<>>
                     => Len(ns[i].d.children) * ns[i].y
                          = SumOf([j \in 1..Len(ns[i].d.children) |-> ns[i].d.children[j].y])

\* C27's case: the root holds a leaf and a node of two leaves, so that the
\* mean of its children, 0.75 gaps, is not the middle of its leaves, 1 gap
C27_Witness ==
  /\ historyInit
  /\ Len(tree.children) = 2
  /\ tree.children[1].children = <<>>
  /\ Len(tree.children[2].children) = 2
  /\ ~tree.children[2].collapsed
  /\ 4 * LayoutNodes(displayTree(tree), "phylogram")[1].y = 3 * yGap

RECURSIVE C28_Height(_)
\* the number of edges of the longest path from the root of t down to a leaf
C28_Height(t) ==
  IF t.children = <<>> THEN 0
  ELSE LET hs == {C28_Height(t.children[i]) : i \in 1..Len(t.children)}
       IN  1 + CHOOSE m \in hs : \A k \in hs : k <= m

RECURSIVE C28_Levels(_)
\* below the node n of the layout, every internal child is one level to the
\* right of its parent
C28_Levels(n) ==
  \A i \in 1..Len(n.children) :
    /\ n.children[i].children # <<>> => n.children[i].ux = n.ux + 1
    /\ C28_Levels(n.children[i])

\* C28: in equal-depth mode every leaf of the display tree, a collapsed
\* placeholder included, gets as unscaled x the largest depth of the display
\* tree, the root gets 0 and every internal node one more than its parent,
\* whatever the lengths are.
C28_EqualDepthX ==
  historyInit
    => LET shown == displayTree(tree)
           ns == LayoutNodes(shown, "cladogram")
           deepest == C28_Height(shown)
       IN  /\ ns[1].d.ux = 0
           /\ C28_Levels(ns[1].d)
           /\ \A i \in 1..Len(ns) :
                 ns[i].d.children = <<>> => ns[i].d.ux = deepest

\* C28's case: a collapsed placeholder one level below the root, next to a
\* node whose leaves are two levels below it, is put at level two
C28_Witness ==
  /\ historyInit
  /\ LET ns == LayoutNodes(displayTree(tree), "cladogram")
     IN  \E i \in 1..Len(ns) :
           /\ ns[i].d.data.isCollapsedPlaceholder
           /\ ns[i].d.depth = 1
           /\ ns[i].d.ux = 2

RECURSIVE C29_Cum(_, _)
\* the layout nodes below and with n, in pre-order, each with the sum of the
\* lengths (a missing one as 0) from below the root down to it, the sum
\* down to n's parent being above: <<node, sum>>, at the root <<node, 0>>
C29_Cum(n, above) ==
  LET here == IF n.depth = 0 THEN 0 ELSE above + LenOrZero(n.data)
  IN  <<[node |-> n, cum |-> here]>>
        \o Flatten([i \in 1..Len(n.children) |-> C29_Cum(n.children[i], here)])

\* the largest of the sums of cs
C29_Largest(cs) ==
  LET xs == {cs[i].cum : i \in 1..Len(cs)}
  IN  CHOOSE m \in xs : \A k \in xs : k <= m

\* in proportional mode the unscaled x of the root is 0, that of every other
\* node its cumulative length, and the scale maps [0, domain] onto the width
C29_Scaled(ns, domain) ==
  LET cs == C29_Cum(ns[1].d, 0)
  IN  /\ ns[1].x.v = 0
      /\ \A i \in 1..Len(ns) :
            /\ ns[i].d.ux = cs[i].cum
            /\ ns[i].x = [v |-> cs[i].cum, domain |-> domain, range |-> xScaleWidth]

\* C29 as stated: in proportional mode every node is at
\* width * (its cumulative length) / (the largest cumulative length), the
\* farthest node at the width (a tree of lengths that are all 0 set aside).
C29_ProportionalX ==
  (probe.fn = "layout" /\ probe.out.done /\ probe.arg.layout = "phylogram")
    => LET ns == probe.out.nodes
           largest == C29_Largest(C29_Cum(ns[1].d, 0))
       IN  largest > 0 => C29_Scaled(ns, largest)

\* C29: in proportional mode the root is at 0 and every node is at
\* width * (its cumulative length) / max(1, the largest cumulative length).
C29_ProportionalXOfDomain ==
  (probe.fn = "layout" /\ probe.out.done /\ probe.arg.layout = "phylogram")
    => LET ns == probe.out.nodes
           largest == C29_Largest(C29_Cum(ns[1].d, 0))
       IN  C29_Scaled(ns, Max(Unit, largest))

\* C29's case: the example tree, whose farthest tip is 0.9 from the root,
\* has that tip at 0.9 of the width
C29_Witness ==
  /\ probe.fn = "layout" /\ probe.out.done /\ probe.arg.layout = "phylogram"
  /\ probe.arg.tree = WithIds(parseNewick(EXAMPLE).tree)
  /\ \E i \in 1..Len(probe.out.nodes) :
        probe.out.nodes[i].x
          = [v |-> 9 * (Unit \div 10), domain |-> Unit, range |-> xScaleWidth]

\* C30: once the cleanup of a run of the effect has run, and so once App is
\* unmounted, no check of that run is started, and a check of that run that
\* was awaiting fetch or res.json() never calls onUpdateDetected.
C30_Cancellation ==
  probe.fn = "useVersionCheck"
    => /\ probe.out.log.op = "tick" => probe.out.log.live
       /\ probe.out.log.called => probe.out.log.live
       /\ probe.out.timers \cap probe.out.cancelled = {}
       /\ ~probe.out.mounted => probe.out.timers = {}

\* C30's case: after App is unmounted, a check that was in flight reads a
\* version other than the bundle's, and does not call onUpdateDetected
C30_Witness ==
  /\ probe.fn = "useVersionCheck"
  /\ ~probe.out.mounted
  /\ probe.out.log = Step("json", probe.out.effect, FALSE, "1.0.1", FALSE)
====
